---------------------------- MODULE Spec2Model ----------------------------
(***************************************************************************)
(* ChArUco calibration and measurement tool.                               *)
(*                                                                         *)
(* The model covers the three workflow classes (IntrinsicCalibration with  *)
(* its CalibrationWorker thread, ExtrinsicCalibration, Measurement), the   *)
(* two JSON files they persist, and the handlers of ChArUcoCalibrationGUI  *)
(* that drive them (one action per handler, the Qt event loop running one  *)
(* handler at a time).                                                     *)
(*                                                                         *)
(* Python's None is written 0 for every numeric slot (matrix, vector,      *)
(* image size); arrays are named by small identifiers, their numeric       *)
(* content being looked up where the geometry needs it.                    *)
(*                                                                         *)
(* Display-only state (labels, logs, progress bar, the raw copy of the     *)
(* frozen frame) is written and never read by the handlers and is left     *)
(* out.                                                                    *)
(***************************************************************************)
EXTENDS Integers, Sequences, FiniteSets, Bags, TLC

\* ------------------------------------------------------------------------
\* Program constants
\* ------------------------------------------------------------------------

\* config.py: MIN_CHARUCO_CORNERS = 4
MIN_CHARUCO_CORNERS == 4

\* The literal 8 of IntrinsicCalibration.run_calibration (and of the two GUI
\* handlers that repeat the test).
MIN_FRAMES == 8

\* The literal 2.0 of CalibrationWorker.run, in tenths of a pixel.
RMS_THRESHOLD == 20

\* config.py: the default paths of the two files.
CALIB_FILE == "camera_calibration.json"

EXTRINSICS_FILE == "camera_extrinsics.json"

\* ------------------------------------------------------------------------
\* Bounds of the model
\* ------------------------------------------------------------------------

\* Frames the correspondence store may hold (one more than MIN_FRAMES, so
\* that a frame can be captured after the Calibrate button was used).
MaxFrames == 9

\* Frames below MIN_CHARUCO_CORNERS a direct caller may add to the store.
MaxPoorFrames == 1

\* CalibrationWorker threads a direct caller keeps at once.
MaxWorkers == 1

\* Click points the Measurement object may hold when driven directly.
MaxClicks == 3

\* ------------------------------------------------------------------------
\* Value domains
\* ------------------------------------------------------------------------

None == 0

\* Camera matrices / distortion vectors: 1 is the model found on disk at
\* start-up (when there is one), 2 the model a fit produces.
Matrices == {1, 2}

\* Poses (rvec, tvec): 1 is the pose found on disk at start-up, 2 the pose
\* solvePnP produces.
Poses == {1, 2}

\* RMS values (tenths of a pixel) calibrateCameraCharuco may return:
\* exactly 0, on the threshold, above it.
RmsValues == {0, 20, 21}

\* Numbers of ChArUco corners a detection may carry (one below
\* MIN_CHARUCO_CORNERS, and MIN_CHARUCO_CORNERS).
DetectedCounts == {3, 4}

\* Numbers of corners a direct caller of capture_pose may pass; 0 stands for
\* the None that detectBoard returns when it finds nothing.
CornerCounts == {0, 3, 4}

\* Frame resolutions: 1 stands for 1280x960, 2 for any other resolution.
ImageSizes == {1, 2}

\* The resolution the camera of the application delivers.
CameraResolution == 1

\* Pixel coordinates a click on the frozen frame may have.
Points == {<<20, 10>>, <<20, 50>>}

\* Pixel coordinates a direct caller may pass.  Under camera matrix 2 and
\* pose 1 the first two project 0.05 m apart.
ApiPoints == {<<20, 10>>, <<23, 10>>, <<20, 50>>}

\* ------------------------------------------------------------------------
\* State
\* ------------------------------------------------------------------------

VARIABLES
    calib_file,       \* content of the file at CALIB_FILE
    extrinsics_file,  \* content of the file at EXTRINSICS_FILE
    intrinsic,        \* the IntrinsicCalibration object
    extrinsic,        \* the ExtrinsicCalibration object
    measurement,      \* the Measurement object
    gui,              \* fields of ChArUcoCalibrationGUI
    video_thread,     \* ChArUcoCalibrationGUI.video_thread
    tabs,             \* current index of the QTabWidget
    btn,              \* enabled flag of every push button
    workers,          \* the bag of CalibrationWorker threads that are running
    lastOp,           \* what the operation that ran last reported and returned
    driver            \* who calls the classes: the GUI, or a direct caller

vars == <<calib_file, extrinsics_file, intrinsic, extrinsic, measurement, gui,
          video_thread, tabs, btn, workers, lastOp, driver>>

\* ------------------------------------------------------------------------
\* Files
\* ------------------------------------------------------------------------

\* A file is absent, holds a complete JSON record, or holds the beginning of
\* one (open(path, 'w') has truncated it and json.dump did not complete).
\* keys names the keys of the JSON object; a key the object lacks has None
\* (0 for rms) in its slot.
AbsentCalib == [kind |-> "absent", keys |-> {}, camera_matrix |-> None,
                dist_coeffs |-> None, rms |-> 0, image_size |-> None]

PartialCalib == [AbsentCalib EXCEPT !.kind = "partial"]

AbsentExtr == [kind |-> "absent", keys |-> {}, rvec |-> None, tvec |-> None]

PartialExtr == [AbsentExtr EXCEPT !.kind = "partial"]

\* The value a dictionary holds under a key, None when it lacks the key.
Get(data, key) == IF key \in DOMAIN data THEN data[key] ELSE None

\* json.dump of a calib_data dictionary: the object written has the keys of
\* the dictionary.
CalibJson(data) ==
    [kind |-> "json", keys |-> DOMAIN data,
     camera_matrix |-> Get(data, "camera_matrix"),
     dist_coeffs |-> Get(data, "dist_coeffs"), rms |-> Get(data, "rms"),
     image_size |-> Get(data, "image_size")]

\* json.dump of the extrinsics_data dictionary save_extrinsics builds.
PoseJson(rvec, tvec) ==
    [kind |-> "json", keys |-> {"rvec", "tvec"}, rvec |-> rvec, tvec |-> tvec]

\* The file a previous run of the program left behind.
StoredCalib == CalibJson([camera_matrix |-> 1, dist_coeffs |-> 1,
                          rms |-> 5, image_size |-> CameraResolution])

StoredExtr == PoseJson(1, 1)

\* The keys of the calib_data dictionary CalibrationWorker.run builds, and of
\* the extrinsics_data dictionary save_extrinsics builds.
CalibKeys == {"camera_matrix", "dist_coeffs", "rms", "image_size"}

PoseKeys == {"rvec", "tvec"}

\* The files a caller may keep at a path of its own and pass as filepath:
\* none, a truncated one, or a JSON object with all the keys or all but one.
AllButOne(keys) == {keys} \cup {keys \ {k} : k \in keys}

CalibFileWith(keys) ==
    CalibJson([k \in keys |-> IF k = "rms" THEN 5 ELSE 1])

CalibFiles ==
    {AbsentCalib, PartialCalib} \cup {CalibFileWith(K) : K \in AllButOne(CalibKeys)}

PoseFileWith(keys) ==
    [kind |-> "json", keys |-> keys,
     rvec |-> IF "rvec" \in keys THEN 1 ELSE None,
     tvec |-> IF "tvec" \in keys THEN 1 ELSE None]

PoseFiles ==
    {AbsentExtr, PartialExtr} \cup {PoseFileWith(K) : K \in AllButOne(PoseKeys)}

\* os.path.exists
Exists(file) == file.kind # "absent"

\* The keys a loader subscripts: data['camera_matrix'], data['dist_coeffs']
\* in a calibration file, data['rvec'], data['tvec'] in a pose file.
Subscripted(file) ==
    IF "rvec" \in DOMAIN file THEN {"rvec", "tvec"}
                              ELSE {"camera_matrix", "dist_coeffs"}

\* json.load followed by the subscripts the loaders apply: a truncated file
\* raises (JSONDecodeError), a missing key raises (KeyError).
Loads(file) == file.kind = "json" /\ Subscripted(file) \subseteq file.keys

\* ------------------------------------------------------------------------
\* IntrinsicCalibration
\* ------------------------------------------------------------------------

\* IntrinsicCalibration.__init__
IC_init == [all_charuco_corners |-> <<>>, all_charuco_ids |-> <<>>,
            image_size |-> None]

\* IntrinsicCalibration.add_frame: both lists grow, the first image size is
\* kept.  A corner array (and its id array) is named by its length.
IC_add_frame(self, charuco_corners, charuco_ids, image_size) ==
    [all_charuco_corners |-> Append(self.all_charuco_corners, charuco_corners),
     all_charuco_ids     |-> Append(self.all_charuco_ids, charuco_ids),
     image_size          |-> IF self.image_size = None THEN image_size
                                                       ELSE self.image_size]

\* IntrinsicCalibration.get_frame_count
IC_get_frame_count(self) == Len(self.all_charuco_corners)

\* IntrinsicCalibration.clear_frames
IC_clear_frames(self) == IC_init

\* The data a worker emits with finished(False, ..., None).
NoData == [camera_matrix |-> None, dist_coeffs |-> None, rms |-> 0,
           image_size |-> None]

\* CalibrationWorker.__init__: the worker keeps the image size and a
\* reference to each of the two lists it is given.  corners and ids are the
\* content of the two list objects; shared tells that they are the list
\* objects the store appends to.
CW_init(corners, ids, image_size) ==
    [corners |-> corners, ids |-> ids, image_size |-> image_size,
     shared |-> TRUE]

\* A worker built on no store.
NoWorker == [corners |-> <<>>, ids |-> <<>>, image_size |-> None,
             shared |-> FALSE]

\* The lists of a worker once add_frame has appended to the store's: the
\* append is made in place, on the list objects a worker built from the
\* store refers to.
CW_after_add_frame(w, charuco_corners, charuco_ids) ==
    IF w.shared
    THEN [w EXCEPT !.corners = Append(@, charuco_corners),
                   !.ids = Append(@, charuco_ids)]
    ELSE w

\* A worker once clear_frames has bound the store to two new lists: the
\* worker keeps the old ones, which nothing appends to any more.
CW_after_clear_frames(w) == [w EXCEPT !.shared = FALSE]

\* The running workers after a call of add_frame, of clear_frames.
WorkersAfterAddFrame(ws, charuco_corners, charuco_ids) ==
    BagOfAll(LAMBDA w : CW_after_add_frame(w, charuco_corners, charuco_ids), ws)

WorkersAfterClearFrames(ws) == BagOfAll(CW_after_clear_frames, ws)

\* run_calibration with its test off by one (seven frames pass).
IC_run_calibration_SevenFrames(self) ==
    IF IC_get_frame_count(self) < MIN_FRAMES - 1
    THEN [raised |-> TRUE, worker |-> NoWorker]
    ELSE [raised |-> FALSE,
          worker |-> CW_init(self.all_charuco_corners, self.all_charuco_ids,
                             self.image_size)]

\* IntrinsicCalibration.run_calibration: raises ValueError below 8 frames,
\* else returns a worker built on the store's two lists (the list objects
\* themselves, no copy is made) and image size.
IC_run_calibration(self) ==
    IF IC_get_frame_count(self) < MIN_FRAMES
    THEN [raised |-> TRUE, worker |-> NoWorker]
    ELSE [raised |-> FALSE,
          worker |-> CW_init(self.all_charuco_corners, self.all_charuco_ids,
                             self.image_size)]

\* The test of CalibrationWorker.run without its comparison to 2.0.
CW_rejects_NoThreshold(ret) == ret = 0

\* CalibrationWorker.run: the test that rejects a fit ("not ret or
\* ret > 2.0").
CW_rejects(ret) == ret = 0 \/ ret > RMS_THRESHOLD

\* CalibrationWorker.run, as the signals it emits, in order.  ret and
\* camera_matrix are what calibrateCameraCharuco returns, throws tells that
\* it raised instead.
Progress(text) == [signal |-> "progress", success |-> FALSE, message |-> text,
                   data |-> NoData]

Finished(success, message, data) ==
    [signal |-> "finished", success |-> success, message |-> message,
     data |-> data]

\* CalibrationWorker.run announcing the success after the finished signal.
CW_run_ProgressAfterFinished(self, ret, camera_matrix, throws) ==
    IF throws
    THEN << Progress("Running calibration algorithm..."),
            Finished(FALSE, "Calibration failed", NoData) >>
    ELSE IF CW_rejects(ret)
    THEN << Progress("Running calibration algorithm..."),
            Finished(FALSE, "Calibration RMS error too high", NoData) >>
    ELSE << Progress("Running calibration algorithm..."),
            Finished(TRUE, "Calibration completed",
                     [camera_matrix |-> camera_matrix,
                      dist_coeffs |-> camera_matrix,
                      rms |-> ret,
                      image_size |-> self.image_size]),
            Progress("Calibration successful!") >>

CW_run(self, ret, camera_matrix, throws) ==
    IF throws
    THEN << Progress("Running calibration algorithm..."),
            Finished(FALSE, "Calibration failed", NoData) >>
    ELSE IF CW_rejects(ret)
    THEN << Progress("Running calibration algorithm..."),
            Finished(FALSE, "Calibration RMS error too high", NoData) >>
    ELSE << Progress("Running calibration algorithm..."),
            Progress("Calibration successful!"),
            Finished(TRUE, "Calibration completed",
                     [camera_matrix |-> camera_matrix,
                      dist_coeffs |-> camera_matrix,
                      rms |-> ret,
                      image_size |-> self.image_size]) >>

\* The kind of outcome a finished signal carries.
FitOutcome(finished) ==
    IF finished.success THEN "ok"
    ELSE IF finished.message = "Calibration failed" THEN "CalibrationFailed"
    ELSE "CalibrationQualityTooLow"

\* The arguments of the finished signal among the signals emitted.
FinishedOf(signals) ==
    LET i == CHOOSE j \in DOMAIN signals : signals[j].signal = "finished"
    IN  signals[i]

\* IntrinsicCalibration.save_calibration: open(filepath, 'w') truncates the
\* file, json.dump then writes the record.  written tells whether the write
\* ran to its end (it does not when the device fails or fills up).
IC_save_calibration(calib_data, written) ==
    IF written THEN CalibJson(calib_data) ELSE PartialCalib

\* IntrinsicCalibration.load_calibration (ExtrinsicCalibration.load_intrinsics
\* is the same code): returns the two arrays only.
IC_load_calibration(file) ==
    IF Loads(file)
    THEN [raised |-> FALSE, camera_matrix |-> file.camera_matrix,
          dist_coeffs |-> file.dist_coeffs]
    ELSE [raised |-> TRUE, camera_matrix |-> None, dist_coeffs |-> None]

\* ------------------------------------------------------------------------
\* ExtrinsicCalibration
\* ------------------------------------------------------------------------

\* ExtrinsicCalibration.__init__
EC_init == [camera_matrix |-> None, dist_coeffs |-> None,
            rvec |-> None, tvec |-> None]

\* ExtrinsicCalibration.set_intrinsics
EC_set_intrinsics(self, camera_matrix, dist_coeffs) ==
    [self EXCEPT !.camera_matrix = camera_matrix, !.dist_coeffs = dist_coeffs]

\* capture_pose without its test of the intrinsics.
EC_capture_pose_NoIntrinsicsTest(self, charuco_corners, charuco_ids, pnp, pose) ==
    IF charuco_corners = 0 \/ charuco_corners < 4
    THEN [raised |-> FALSE, success |-> FALSE, message |-> "InsufficientCorners",
          rvec |-> None, tvec |-> None, self |-> self]
    ELSE IF pnp = "success"
    THEN [raised |-> FALSE, success |-> TRUE, message |-> "ok",
          rvec |-> pose, tvec |-> pose,
          self |-> [self EXCEPT !.rvec = pose, !.tvec = pose]]
    ELSE [raised |-> FALSE, success |-> FALSE,
          message |-> IF pnp = "failure" THEN "PoseSolveFailed"
                                         ELSE "PoseEstimationError",
          rvec |-> None, tvec |-> None, self |-> self]

\* capture_pose with its test of the corners off by one (three pass).
EC_capture_pose_ThreeCorners(self, charuco_corners, charuco_ids, pnp, pose) ==
    IF self.camera_matrix = None \/ self.dist_coeffs = None
    THEN [raised |-> TRUE, success |-> FALSE, message |-> "IntrinsicsNotSet",
          rvec |-> None, tvec |-> None, self |-> self]
    ELSE IF charuco_corners = 0 \/ charuco_corners < 3
    THEN [raised |-> FALSE, success |-> FALSE, message |-> "InsufficientCorners",
          rvec |-> None, tvec |-> None, self |-> self]
    ELSE IF pnp = "success"
    THEN [raised |-> FALSE, success |-> TRUE, message |-> "ok",
          rvec |-> pose, tvec |-> pose,
          self |-> [self EXCEPT !.rvec = pose, !.tvec = pose]]
    ELSE [raised |-> FALSE, success |-> FALSE,
          message |-> IF pnp = "failure" THEN "PoseSolveFailed"
                                         ELSE "PoseEstimationError",
          rvec |-> None, tvec |-> None, self |-> self]

\* ExtrinsicCalibration.capture_pose.  pnp is what cv2.solvePnP does with
\* the corners: "success" (with pose), "failure" or "throws".
\* Returns what the caller sees (raised: the ValueError of the intrinsics
\* test; success, rvec, tvec: the returned tuple) and the object afterwards.
EC_capture_pose(self, charuco_corners, charuco_ids, pnp, pose) ==
    IF self.camera_matrix = None \/ self.dist_coeffs = None
    THEN [raised |-> TRUE, success |-> FALSE, message |-> "IntrinsicsNotSet",
          rvec |-> None, tvec |-> None, self |-> self]
    ELSE IF charuco_corners = 0 \/ charuco_corners < 4
    THEN [raised |-> FALSE, success |-> FALSE, message |-> "InsufficientCorners",
          rvec |-> None, tvec |-> None, self |-> self]
    ELSE IF pnp = "success"
    THEN [raised |-> FALSE, success |-> TRUE, message |-> "ok",
          rvec |-> pose, tvec |-> pose,
          self |-> [self EXCEPT !.rvec = pose, !.tvec = pose]]
    ELSE [raised |-> FALSE, success |-> FALSE,
          message |-> IF pnp = "failure" THEN "PoseSolveFailed"
                                         ELSE "PoseEstimationError",
          rvec |-> None, tvec |-> None, self |-> self]

\* ExtrinsicCalibration.save_extrinsics: missing arguments default to the
\* stored pose; with no pose at all it raises before the file is opened.
EC_save_extrinsics(self, rvec, tvec, file, written) ==
    LET r == IF rvec = None THEN self.rvec ELSE rvec
        t == IF tvec = None THEN self.tvec ELSE tvec
    IN  IF r = None \/ t = None
        THEN [raised |-> TRUE, message |-> "PoseNotAvailable", file |-> file]
        ELSE IF written
        THEN [raised |-> FALSE, message |-> "ok",
              file |-> PoseJson(r, t)]
        ELSE [raised |-> TRUE, message |-> "IOError", file |-> PartialExtr]

\* ExtrinsicCalibration.load_extrinsics
EC_load_extrinsics(file) ==
    IF Loads(file)
    THEN [raised |-> FALSE, rvec |-> file.rvec, tvec |-> file.tvec]
    ELSE [raised |-> TRUE, rvec |-> None, tvec |-> None]

\* ------------------------------------------------------------------------
\* Measurement
\* ------------------------------------------------------------------------

\* The numeric content of the arrays, kept small (pixels by the ten,
\* lengths in decimetres).  Camera matrix 1 has fx = fy = 30, camera matrix
\* 2 has fx = fy = 60; both have (cx, cy) = (20, 10).
Fx(k) == IF k = 1 THEN 30 ELSE 60
Fy(k) == IF k = 1 THEN 30 ELSE 60
Cx(k) == 20
Cy(k) == 10

\* cv2.Rodrigues(rvec), as an integer matrix RotDen * R (a tuple of rows).
\* rvec 1 is the null rotation; rvec 2 turns the board about the camera's
\* x axis by atan(3/4), so R = [[1,0,0],[0,4/5,-3/5],[0,3/5,4/5]].
RotDen(r) == IF r = 1 THEN 1 ELSE 5
Rodrigues(r) ==
    IF r = 1 THEN << <<1, 0, 0>>, <<0, 1, 0>>, <<0, 0, 1>> >>
             ELSE << <<5, 0, 0>>, <<0, 4, -3>>, <<0, 3, 4>> >>

\* tvec: the board origin is 1 m in front of the camera.
Tvec(t) == <<0, 0, 10>>

Dot(a, b) == a[1] * b[1] + a[2] * b[2] + a[3] * b[3]

\* R[:, j]
Col(R, j) == <<R[1][j], R[2][j], R[3][j]>>

\* Exact fractions, kept in lowest terms with a positive denominator.
Abs(x) == IF x < 0 THEN -x ELSE x

\* What a float division by zero leaves behind (inf or nan), and every
\* operation on it.
NaN == [num |-> 0, den |-> 0]

RECURSIVE Gcd(_, _)
Gcd(a, b) == IF b = 0 THEN a ELSE Gcd(b, a % b)

Frac(n, d) ==
    LET g == Gcd(Abs(n), Abs(d))
        sgn == IF d < 0 THEN -1 ELSE 1
    IN  IF d = 0 THEN NaN
        ELSE [num |-> sgn * (n \div g), den |-> sgn * (d \div g)]

FracSub(a, b) == Frac(a.num * b.den - b.num * a.den, a.den * b.den)
FracAdd(a, b) == Frac(a.num * b.den + b.num * a.den, a.den * b.den)
FracMul(a, b) == Frac(a.num * b.num, a.den * b.den)

\* Measurement.__init__
M_init == [camera_matrix |-> None, dist_coeffs |-> None, rvec |-> None,
           tvec |-> None, click_points |-> <<>>]

\* Measurement.set_calibration
M_set_calibration(self, camera_matrix, dist_coeffs, rvec, tvec) ==
    [self EXCEPT !.camera_matrix = camera_matrix, !.dist_coeffs = dist_coeffs,
                 !.rvec = rvec, !.tvec = tvec]

\* undistort_frame testing the camera matrix alone.
M_undistort_frame_raises_MatrixOnly(self) == self.camera_matrix = None

\* Measurement.undistort_frame: TRUE when it raises ValueError.
M_undistort_frame_raises(self) ==
    self.camera_matrix = None \/ self.dist_coeffs = None

\* Measurement.add_click_point
M_add_click_point(self, pixel_coords) ==
    [self EXCEPT !.click_points = Append(@, pixel_coords)]

\* reset_points that leaves the list as it is.
M_reset_points_KeepsPoints(self) == self

\* Measurement.reset_points
M_reset_points(self) == [self EXCEPT !.click_points = <<>>]

\* image_to_plane without its test of the denominator: the division by zero
\* goes through.
M_image_to_plane_NoParallelTest(self, pt) ==
    LET fx  == Fx(self.camera_matrix)
        fy  == Fy(self.camera_matrix)
        ray == <<(pt[1] - Cx(self.camera_matrix)) * fy,
                 (pt[2] - Cy(self.camera_matrix)) * fx,
                 fx * fy>>
        R   == Rodrigues(self.rvec)
        n   == Col(R, 3)
        t   == Tvec(self.tvec)
        D   == Dot(n, ray)
        nt  == Dot(n, t)
        v   == <<nt * ray[1] - D * t[1], nt * ray[2] - D * t[2],
                 nt * ray[3] - D * t[3]>>
    IN  [parallel |-> FALSE,
         x |-> Frac(Dot(Col(R, 1), v), RotDen(self.rvec) * D),
         y |-> Frac(Dot(Col(R, 2), v), RotDen(self.rvec) * D)]

\* image_to_plane taking the pixel for the offset from the principal point
\* (cx and cy are not subtracted).
M_image_to_plane_NoPrincipalPoint(self, pt) ==
    LET fx  == Fx(self.camera_matrix)
        fy  == Fy(self.camera_matrix)
        ray == <<pt[1] * fy, pt[2] * fx, fx * fy>>
        R   == Rodrigues(self.rvec)
        n   == Col(R, 3)
        t   == Tvec(self.tvec)
        D   == Dot(n, ray)
        nt  == Dot(n, t)
        v   == <<nt * ray[1] - D * t[1], nt * ray[2] - D * t[2],
                 nt * ray[3] - D * t[3]>>
    IN  IF D = 0
        THEN [parallel |-> TRUE, x |-> NaN, y |-> NaN]
        ELSE [parallel |-> FALSE,
              x |-> Frac(Dot(Col(R, 1), v), RotDen(self.rvec) * D),
              y |-> Frac(Dot(Col(R, 2), v), RotDen(self.rvec) * D)]

\* Measurement.image_to_plane, in exact arithmetic.  With
\*   ray = ((px - cx) / fx, (py - cy) / fy, 1),  n = R[:, 2],  d = -n.t
\* the code computes denom = n.ray, s = -d / denom, Xc = s * ray and
\* R[:, :2]^T (Xc - t).  Scaling ray by fx * fy and R by RotDen leaves
\* s * ray unchanged, so the point is (vx / den, vy / den) with
\*   D        = (RotDen * n) . (fx * fy * ray)
\*   (vx, vy) = (RotDen * R)[:, :2]^T ((RotDen * n . t) * fx * fy * ray - D * t)
\*   den      = RotDen * D
\* and denom is 0 exactly when D is (|denom| < 1e-9 is D = 0 for these
\* magnitudes).  parallel is the RuntimeError.
M_image_to_plane(self, pt) ==
    LET fx  == Fx(self.camera_matrix)
        fy  == Fy(self.camera_matrix)
        ray == <<(pt[1] - Cx(self.camera_matrix)) * fy,
                 (pt[2] - Cy(self.camera_matrix)) * fx,
                 fx * fy>>
        R   == Rodrigues(self.rvec)
        n   == Col(R, 3)
        t   == Tvec(self.tvec)
        D   == Dot(n, ray)
        nt  == Dot(n, t)
        v   == <<nt * ray[1] - D * t[1], nt * ray[2] - D * t[2],
                 nt * ray[3] - D * t[3]>>
    IN  IF D = 0
        THEN [parallel |-> TRUE, x |-> NaN, y |-> NaN]
        ELSE [parallel |-> FALSE,
              x |-> Frac(Dot(Col(R, 1), v), RotDen(self.rvec) * D),
              y |-> Frac(Dot(Col(R, 2), v), RotDen(self.rvec) * D)]

\* The None a failed compute_distance returns for distance_m and
\* distance_cm, and for point1_3d and point2_3d.
NoDistance == [none |-> TRUE]

NoPoint == [none |-> TRUE]

\* compute_distance with its test of the points off by one: a single point
\* passes it, and the subscript of the missing second point raises inside
\* the try block.
M_compute_distance_OnePointPasses(self) ==
    IF Len(self.click_points) < 1
    THEN [success |-> FALSE, message |-> "InsufficientPoints",
          distance2 |-> NoDistance, point1 |-> NoPoint, point2 |-> NoPoint]
    ELSE IF self.camera_matrix = None \/ self.dist_coeffs = None
    THEN [success |-> FALSE, message |-> "IntrinsicsNotSet",
          distance2 |-> NoDistance, point1 |-> NoPoint, point2 |-> NoPoint]
    ELSE IF self.rvec = None \/ self.tvec = None
    THEN [success |-> FALSE, message |-> "ExtrinsicsNotSet",
          distance2 |-> NoDistance, point1 |-> NoPoint, point2 |-> NoPoint]
    ELSE IF Len(self.click_points) = 1
    THEN [success |-> FALSE, message |-> "IndexError",
          distance2 |-> NoDistance, point1 |-> NoPoint, point2 |-> NoPoint]
    ELSE LET p1 == M_image_to_plane(self, self.click_points[1])
             p2 == M_image_to_plane(self, self.click_points[2])
             dx == FracSub(p2.x, p1.x)
             dy == FracSub(p2.y, p1.y)
         IN  IF p1.parallel \/ p2.parallel
             THEN [success |-> FALSE, message |-> "RayParallelToPlane",
                   distance2 |-> NoDistance,
                   point1 |-> NoPoint, point2 |-> NoPoint]
             ELSE [success |-> TRUE, message |-> "ok",
                   distance2 |-> FracAdd(FracMul(dx, dx), FracMul(dy, dy)),
                   point1 |-> [x |-> p1.x, y |-> p1.y],
                   point2 |-> [x |-> p2.x, y |-> p2.y]]

\* compute_distance with its two tests of the calibration in the other
\* order.
M_compute_distance_PoseTestedFirst(self) ==
    IF Len(self.click_points) < 2
    THEN [success |-> FALSE, message |-> "InsufficientPoints",
          distance2 |-> NoDistance, point1 |-> NoPoint, point2 |-> NoPoint]
    ELSE IF self.rvec = None \/ self.tvec = None
    THEN [success |-> FALSE, message |-> "ExtrinsicsNotSet",
          distance2 |-> NoDistance, point1 |-> NoPoint, point2 |-> NoPoint]
    ELSE IF self.camera_matrix = None \/ self.dist_coeffs = None
    THEN [success |-> FALSE, message |-> "IntrinsicsNotSet",
          distance2 |-> NoDistance, point1 |-> NoPoint, point2 |-> NoPoint]
    ELSE LET p1 == M_image_to_plane(self, self.click_points[1])
             p2 == M_image_to_plane(self, self.click_points[2])
             dx == FracSub(p2.x, p1.x)
             dy == FracSub(p2.y, p1.y)
         IN  IF p1.parallel \/ p2.parallel
             THEN [success |-> FALSE, message |-> "RayParallelToPlane",
                   distance2 |-> NoDistance,
                   point1 |-> NoPoint, point2 |-> NoPoint]
             ELSE [success |-> TRUE, message |-> "ok",
                   distance2 |-> FracAdd(FracMul(dx, dx), FracMul(dy, dy)),
                   point1 |-> [x |-> p1.x, y |-> p1.y],
                   point2 |-> [x |-> p2.x, y |-> p2.y]]

\* Measurement.compute_distance.  distance2 is the square of distance_m (in
\* square decimetres), an exact fraction; point1 and point2 are the two
\* points on the plane.
M_compute_distance(self) ==
    IF Len(self.click_points) < 2
    THEN [success |-> FALSE, message |-> "InsufficientPoints",
          distance2 |-> NoDistance, point1 |-> NoPoint, point2 |-> NoPoint]
    ELSE IF self.camera_matrix = None \/ self.dist_coeffs = None
    THEN [success |-> FALSE, message |-> "IntrinsicsNotSet",
          distance2 |-> NoDistance, point1 |-> NoPoint, point2 |-> NoPoint]
    ELSE IF self.rvec = None \/ self.tvec = None
    THEN [success |-> FALSE, message |-> "ExtrinsicsNotSet",
          distance2 |-> NoDistance, point1 |-> NoPoint, point2 |-> NoPoint]
    ELSE LET p1 == M_image_to_plane(self, self.click_points[1])
             p2 == M_image_to_plane(self, self.click_points[2])
             dx == FracSub(p2.x, p1.x)
             dy == FracSub(p2.y, p1.y)
         IN  IF p1.parallel \/ p2.parallel
             THEN [success |-> FALSE, message |-> "RayParallelToPlane",
                   distance2 |-> NoDistance,
                   point1 |-> NoPoint, point2 |-> NoPoint]
             ELSE [success |-> TRUE, message |-> "ok",
                   distance2 |-> FracAdd(FracMul(dx, dx), FracMul(dy, dy)),
                   point1 |-> [x |-> p1.x, y |-> p1.y],
                   point2 |-> [x |-> p2.x, y |-> p2.y]]

\* What compute_distance returns besides success and message: distance_m
\* (distance_cm is 100 times it) and the two plane points.
M_result(r) == <<r.distance2, r.point1, r.point2>>

NoResult == <<NoDistance, NoPoint, NoPoint>>

\* ------------------------------------------------------------------------
\* ChArUcoCalibrationGUI: state after construction
\* ------------------------------------------------------------------------

\* self.video_thread = None
NoThread == "none"

\* VideoThread(...) followed by start(), its signals connected to the slots
\* of one tab ("calib", "extrin" or "measure").  The camera is taken to
\* open and to keep delivering frames: the thread runs until stop().
NewThread(kind) == kind

\* self.video_thread and self.video_thread.isRunning()
IsRunning(vt) == vt # NoThread

\* self.current_detection = {}
NoDetection == [empty |-> TRUE, corners_detected |-> 0]

\* The info dictionary VideoThread.run emits for a frame with n corners.
Detection(n) == [empty |-> FALSE, corners_detected |-> n]

\* load_saved_calibration that takes a missing pose file for a success.
GUI_load_saved_calibration_NoPoseTest(g, cfile, efile) ==
    IF ~Exists(cfile)
    THEN [gui |-> g, ret |-> FALSE, out |-> "NotFound"]
    ELSE LET c  == IC_load_calibration(cfile)
             g1 == [g EXCEPT !.camera_matrix = c.camera_matrix,
                             !.dist_coeffs = c.dist_coeffs]
             e  == EC_load_extrinsics(efile)
             g2 == [g1 EXCEPT !.rvec = e.rvec, !.tvec = e.tvec]
         IN  IF c.raised
             THEN [gui |-> g, ret |-> FALSE, out |-> "Corrupt"]
             ELSE IF ~Exists(efile)
             THEN [gui |-> g1, ret |-> TRUE, out |-> "ok"]
             ELSE IF e.raised
             THEN [gui |-> g1, ret |-> FALSE, out |-> "Corrupt"]
             ELSE [gui |-> g2, ret |-> TRUE, out |-> "ok"]

\* load_saved_calibration that reads the pose file only while the GUI holds
\* no pose yet.
GUI_load_saved_calibration_KeepsPose(g, cfile, efile) ==
    IF ~Exists(cfile)
    THEN [gui |-> g, ret |-> FALSE, out |-> "NotFound"]
    ELSE LET c  == IC_load_calibration(cfile)
             g1 == [g EXCEPT !.camera_matrix = c.camera_matrix,
                             !.dist_coeffs = c.dist_coeffs]
             e  == EC_load_extrinsics(efile)
             g2 == [g1 EXCEPT !.rvec = e.rvec, !.tvec = e.tvec]
         IN  IF c.raised
             THEN [gui |-> g, ret |-> FALSE, out |-> "Corrupt"]
             ELSE IF g.rvec # None /\ g.tvec # None
             THEN [gui |-> g1, ret |-> TRUE, out |-> "ok"]
             ELSE IF ~Exists(efile)
             THEN [gui |-> g1, ret |-> FALSE, out |-> "NotFound"]
             ELSE IF e.raised
             THEN [gui |-> g1, ret |-> FALSE, out |-> "Corrupt"]
             ELSE [gui |-> g2, ret |-> TRUE, out |-> "ok"]

\* ChArUcoCalibrationGUI.load_saved_calibration, on the files given:
\* the GUI fields afterwards, the value returned and what was reported.
GUI_load_saved_calibration(g, cfile, efile) ==
    IF ~Exists(cfile)
    THEN [gui |-> g, ret |-> FALSE, out |-> "NotFound"]
    ELSE LET c  == IC_load_calibration(cfile)
             g1 == [g EXCEPT !.camera_matrix = c.camera_matrix,
                             !.dist_coeffs = c.dist_coeffs]
             e  == EC_load_extrinsics(efile)
             g2 == [g1 EXCEPT !.rvec = e.rvec, !.tvec = e.tvec]
         IN  IF c.raised
             THEN [gui |-> g, ret |-> FALSE, out |-> "Corrupt"]
             ELSE IF ~Exists(efile)
             THEN [gui |-> g1, ret |-> FALSE, out |-> "NotFound"]
             ELSE IF e.raised
             THEN [gui |-> g1, ret |-> FALSE, out |-> "Corrupt"]
             ELSE [gui |-> g2, ret |-> TRUE, out |-> "ok"]

\* The fields ChArUcoCalibrationGUI.__init__ sets before it loads the files.
\* current_measure_frame, the last raw frame of the measurement camera, is
\* not kept: whether one has arrived is chosen where freeze_frame reads it.
GUI_fields ==
    [current_detection |-> NoDetection, image_size |-> None,
     frozen_frame |-> FALSE, click_points |-> <<>>,
     camera_matrix |-> None, dist_coeffs |-> None,
     rvec |-> None, tvec |-> None]

\* The buttons as the create_*_tab methods leave them.
GUI_buttons ==
    [calib_start |-> TRUE, calib_capture |-> FALSE, calib_calibrate |-> FALSE,
     calib_stop |-> FALSE,
     extrin_start |-> TRUE, extrin_capture |-> FALSE, extrin_stop |-> FALSE,
     measure_start |-> TRUE, measure_freeze |-> FALSE,
     measure_reset |-> FALSE, measure_stop |-> FALSE]

\* What a call leaves behind for its caller: the name of the operation, what
\* it reported (the kind of error, or "ok") and the value it returned.
Op(op, out, value) == [op |-> op, out |-> out, value |-> value]

\* What a handler of the GUI leaves behind for the user: the dialog or log
\* line it ends with ("CameraStarted" for the "Camera started" line of
\* start_calibration_camera and start_extrinsics_camera, "ok" for any other
\* line that reports no error).
Shown(out) == Op("gui", out, None)

\* The objects every client starts from, on the files of an earlier run (or
\* none).
InitObjects ==
    /\ calib_file \in {AbsentCalib, StoredCalib}
    /\ extrinsics_file \in {AbsentExtr, StoredExtr}
    /\ intrinsic = IC_init
    /\ extrinsic = EC_init
    /\ measurement = M_init
    /\ video_thread = NoThread
    /\ tabs = 0
    /\ btn = GUI_buttons
    /\ workers = EmptyBag
    /\ lastOp = Shown("ok")

\* ChArUcoCalibrationGUI.__init__
InitGui ==
    /\ driver = "gui"
    /\ InitObjects
    /\ gui = GUI_load_saved_calibration(GUI_fields, calib_file, extrinsics_file).gui

\* ------------------------------------------------------------------------
\* Threads
\* ------------------------------------------------------------------------

\* A bag with one copy of w.
One(w) == SetToBag({w})

\* VideoThread.run emitting detection_info for one frame, and the slot of
\* the tab it is connected to: update_calib_detection,
\* update_extrin_detection or store_measurement_frame.
VideoThreadDetection ==
    /\ driver = "gui"
    /\ IsRunning(video_thread)
    /\ \E n \in DetectedCounts :
        /\ gui' = CASE video_thread = "calib" ->
                         [gui EXCEPT !.current_detection = Detection(n),
                                     !.image_size = IF @ = None
                                                    THEN CameraResolution ELSE @]
                    [] video_thread = "extrin" ->
                         [gui EXCEPT !.current_detection = Detection(n)]
                    [] OTHER -> gui
    /\ lastOp' = Shown("ok")
    /\ UNCHANGED <<calib_file, extrinsics_file, intrinsic, extrinsic,
                   measurement, video_thread, tabs, btn, workers, driver>>

\* ------------------------------------------------------------------------
\* ChArUcoCalibrationGUI: tab 0, intrinsics calibration
\* ------------------------------------------------------------------------

\* ChArUcoCalibrationGUI.start_calibration_camera
GUI_start_calibration_camera ==
    /\ driver = "gui" /\ tabs = 0 /\ btn.calib_start
    /\ video_thread' = NewThread("calib")
    /\ btn' = [btn EXCEPT !.calib_start = FALSE, !.calib_capture = TRUE,
                          !.calib_stop = TRUE]
    /\ lastOp' = Shown("CameraStarted")
    /\ UNCHANGED <<calib_file, extrinsics_file, intrinsic, extrinsic,
                   measurement, gui, tabs, workers, driver>>

\* The corner test with its threshold one too low.
TooFewCorners_OffByOne(detection) ==
    detection.corners_detected < MIN_CHARUCO_CORNERS - 1

\* The test capture_calibration_frame and capture_extrinsics begin with:
\* self.current_detection.get('corners_detected', 0) < MIN_CHARUCO_CORNERS
TooFewCorners(detection) == detection.corners_detected < MIN_CHARUCO_CORNERS

\* ChArUcoCalibrationGUI.capture_calibration_frame
GUI_capture_calibration_frame ==
    /\ driver = "gui" /\ tabs = 0 /\ btn.calib_capture
    /\ LET det == gui.current_detection
           added == IC_add_frame(intrinsic, det.corners_detected,
                                 det.corners_detected, gui.image_size)
       IN  \/ /\ TooFewCorners(det)
              /\ lastOp' = Shown("InsufficientCorners")
              /\ UNCHANGED <<intrinsic, btn, workers>>
           \/ /\ ~TooFewCorners(det)
              /\ IC_get_frame_count(intrinsic) < MaxFrames
              /\ intrinsic' = added
              /\ workers' = WorkersAfterAddFrame(workers, det.corners_detected,
                                                 det.corners_detected)
              /\ btn' = IF IC_get_frame_count(added) >= MIN_FRAMES
                        THEN [btn EXCEPT !.calib_calibrate = TRUE] ELSE btn
              /\ lastOp' = Shown("ok")
    /\ UNCHANGED <<calib_file, extrinsics_file, extrinsic, measurement, gui,
                   video_thread, tabs, driver>>

\* The process once Qt has aborted it: its objects are gone, the files stay.
Aborted ==
    /\ driver' = "aborted"
    /\ intrinsic' = IC_init
    /\ extrinsic' = EC_init
    /\ measurement' = M_init
    /\ gui' = GUI_fields
    /\ video_thread' = NoThread
    /\ tabs' = 0
    /\ btn' = GUI_buttons
    /\ workers' = EmptyBag
    /\ lastOp' = Shown("Aborted")
    /\ UNCHANGED <<calib_file, extrinsics_file>>

\* ChArUcoCalibrationGUI.run_calibration.  self.calib_worker is the only
\* reference to a worker: assigning the new worker to it while an earlier
\* one still runs leaves that QThread to be destroyed while running, on
\* which Qt aborts the process, unless the object outlives the assignment.
GUI_run_calibration ==
    /\ driver = "gui" /\ tabs = 0 /\ btn.calib_calibrate
    /\ LET r == IC_run_calibration(intrinsic)
       IN  \/ /\ IC_get_frame_count(intrinsic) < MIN_FRAMES
              /\ lastOp' = Shown("InsufficientFrames")
              /\ UNCHANGED <<calib_file, extrinsics_file, intrinsic, extrinsic,
                             measurement, gui, video_thread, tabs, btn,
                             workers, driver>>
           \/ /\ IC_get_frame_count(intrinsic) >= MIN_FRAMES
              /\ r.raised
              /\ btn' = [btn EXCEPT !.calib_calibrate = TRUE]
              /\ lastOp' = Shown("InsufficientFrames")
              /\ UNCHANGED <<calib_file, extrinsics_file, intrinsic, extrinsic,
                             measurement, gui, video_thread, tabs, workers,
                             driver>>
           \/ /\ IC_get_frame_count(intrinsic) >= MIN_FRAMES
              /\ ~r.raised
              /\ btn' = [btn EXCEPT !.calib_calibrate = FALSE]
              /\ workers' = workers (+) One(r.worker)
              /\ lastOp' = Shown("ok")
              /\ UNCHANGED <<calib_file, extrinsics_file, intrinsic, extrinsic,
                             measurement, gui, video_thread, tabs, driver>>
           \/ /\ IC_get_frame_count(intrinsic) >= MIN_FRAMES
              /\ ~r.raised
              /\ workers # EmptyBag
              /\ Aborted

\* ChArUcoCalibrationGUI.calibration_finished(success, message, data), the
\* slot of the finished signal.
GUI_calibration_finished(finished) ==
    \/ /\ finished.success
       /\ \E written \in BOOLEAN :
           LET file == IC_save_calibration(finished.data, written)
               ld   == GUI_load_saved_calibration(gui, file, extrinsics_file)
           IN  /\ calib_file' = file
               /\ IF written
                  THEN /\ gui' = ld.gui
                       /\ lastOp' = Shown("ok")
                  ELSE /\ gui' = gui
                       /\ lastOp' = Shown("SaveError")
       /\ UNCHANGED btn
    \/ /\ ~finished.success
       /\ btn' = [btn EXCEPT !.calib_calibrate = TRUE]
       /\ lastOp' = Shown(FitOutcome(finished))
       /\ UNCHANGED <<calib_file, gui>>

\* A running CalibrationWorker coming to its end: CalibrationWorker.run,
\* then the slot of its finished signal in the GUI thread.  Nothing reads
\* the signal between the two, so they are taken as one step.  ret is the
\* RMS error of the fit, throws tells that the fit raised instead.
CalibrationWorkerFinishes(w, ret, throws) ==
    /\ driver = "gui"
    /\ BagIn(w, workers)
    /\ workers' = workers (-) One(w)
    /\ GUI_calibration_finished(FinishedOf(CW_run(w, ret, 2, throws)))
    /\ UNCHANGED <<extrinsics_file, intrinsic, extrinsic, measurement,
                   video_thread, tabs, driver>>

\* ChArUcoCalibrationGUI.stop_calibration_camera
GUI_stop_calibration_camera ==
    /\ driver = "gui" /\ tabs = 0 /\ btn.calib_stop
    /\ video_thread' = NoThread
    /\ btn' = [btn EXCEPT !.calib_start = TRUE, !.calib_capture = FALSE,
                          !.calib_stop = FALSE]
    /\ lastOp' = Shown("ok")
    /\ UNCHANGED <<calib_file, extrinsics_file, intrinsic, extrinsic,
                   measurement, gui, tabs, workers, driver>>

\* ChArUcoCalibrationGUI.stop_active_camera: the thread afterwards.
GUI_stop_active_camera(vt) == IF IsRunning(vt) THEN NoThread ELSE vt

\* ChArUcoCalibrationGUI.on_tab_changed(index)
GUI_on_tab_changed(index) ==
    /\ driver = "gui"
    /\ index # tabs
    /\ tabs' = index
    /\ video_thread' = GUI_stop_active_camera(video_thread)
    /\ btn' = [btn EXCEPT !.calib_start = TRUE, !.calib_capture = FALSE,
                          !.calib_stop = FALSE,
                          !.extrin_start = TRUE, !.extrin_capture = FALSE,
                          !.extrin_stop = FALSE,
                          !.measure_start = TRUE, !.measure_freeze = FALSE,
                          !.measure_reset = FALSE, !.measure_stop = FALSE]
    /\ lastOp' = Shown("ok")
    /\ UNCHANGED <<calib_file, extrinsics_file, intrinsic, extrinsic,
                   measurement, gui, workers, driver>>

\* ------------------------------------------------------------------------
\* ChArUcoCalibrationGUI: tab 1, extrinsics capture
\* ------------------------------------------------------------------------

\* What cv2.solvePnP may do.
PnpOutcomes == {"success", "failure", "throws"}

\* ChArUcoCalibrationGUI.stop_extrinsics_camera: the buttons afterwards.
ExtrinStopped(b) == [b EXCEPT !.extrin_start = TRUE, !.extrin_capture = FALSE,
                              !.extrin_stop = FALSE]

\* ChArUcoCalibrationGUI.start_extrinsics_camera
GUI_start_extrinsics_camera ==
    /\ driver = "gui" /\ tabs = 1 /\ btn.extrin_start
    /\ LET c  == IC_load_calibration(calib_file)
           vt == IF IsRunning(video_thread) THEN NoThread ELSE video_thread
           b  == IF IsRunning(video_thread) THEN ExtrinStopped(btn) ELSE btn
       IN  \/ /\ ~Exists(calib_file)
              /\ lastOp' = Shown("NoCalibration")
              /\ UNCHANGED <<gui, extrinsic, video_thread, btn>>
           \/ /\ Exists(calib_file)
              /\ c.raised
              /\ video_thread' = vt
              /\ btn' = b
              /\ lastOp' = Shown("Corrupt")
              /\ UNCHANGED <<gui, extrinsic>>
           \/ /\ Exists(calib_file)
              /\ ~c.raised
              /\ gui' = [gui EXCEPT !.camera_matrix = c.camera_matrix,
                                    !.dist_coeffs = c.dist_coeffs]
              /\ extrinsic' = EC_set_intrinsics(extrinsic, c.camera_matrix,
                                                c.dist_coeffs)
              /\ video_thread' = NewThread("extrin")
              /\ btn' = [btn EXCEPT !.extrin_start = FALSE,
                                    !.extrin_capture = TRUE,
                                    !.extrin_stop = TRUE]
              /\ lastOp' = Shown("CameraStarted")
    /\ UNCHANGED <<calib_file, extrinsics_file, intrinsic, measurement, tabs,
                   workers, driver>>

\* ChArUcoCalibrationGUI.capture_extrinsics
GUI_capture_extrinsics ==
    /\ driver = "gui" /\ tabs = 1 /\ btn.extrin_capture
    /\ LET n == gui.current_detection.corners_detected
       IN  \/ /\ TooFewCorners(gui.current_detection)
              /\ lastOp' = Shown("InsufficientCorners")
              /\ UNCHANGED <<extrinsic, extrinsics_file, gui>>
           \/ /\ ~TooFewCorners(gui.current_detection)
              /\ \E pnp \in PnpOutcomes, written \in BOOLEAN :
                  LET r  == EC_capture_pose(extrinsic, n, n, pnp, 2)
                      sv == EC_save_extrinsics(r.self, r.rvec, r.tvec,
                                               extrinsics_file, written)
                      ld == GUI_load_saved_calibration(gui, calib_file, sv.file)
                  IN  IF r.raised \/ ~r.success
                      THEN /\ lastOp' = Shown(r.message)
                           /\ UNCHANGED <<extrinsic, extrinsics_file, gui>>
                      ELSE /\ extrinsic' = r.self
                           /\ extrinsics_file' = sv.file
                           /\ IF sv.raised
                              THEN /\ gui' = gui
                                   /\ lastOp' = Shown("SaveError")
                              ELSE /\ gui' = ld.gui
                                   /\ lastOp' = Shown("ok")
    /\ UNCHANGED <<calib_file, intrinsic, measurement, video_thread, tabs,
                   btn, workers, driver>>

\* ChArUcoCalibrationGUI.stop_extrinsics_camera
GUI_stop_extrinsics_camera ==
    /\ driver = "gui" /\ tabs = 1 /\ btn.extrin_stop
    /\ video_thread' = NoThread
    /\ btn' = ExtrinStopped(btn)
    /\ lastOp' = Shown("ok")
    /\ UNCHANGED <<calib_file, extrinsics_file, intrinsic, extrinsic,
                   measurement, gui, tabs, workers, driver>>

\* ------------------------------------------------------------------------
\* ChArUcoCalibrationGUI: tab 2, measurement
\* ------------------------------------------------------------------------

\* ChArUcoCalibrationGUI.start_measurement
GUI_start_measurement ==
    /\ driver = "gui" /\ tabs = 2 /\ btn.measure_start
    /\ LET ld == GUI_load_saved_calibration(gui, calib_file, extrinsics_file)
           \* stop_measurement(), when a thread is still running
           m  == IF IsRunning(video_thread) THEN M_reset_points(measurement)
                                            ELSE measurement
           b  == IF IsRunning(video_thread)
                 THEN [btn EXCEPT !.measure_reset = FALSE] ELSE btn
       IN  IF ~ld.ret
           THEN /\ gui' = ld.gui
                /\ lastOp' = Shown("NotCalibrated")
                /\ UNCHANGED <<measurement, video_thread, btn>>
           ELSE /\ measurement' = M_set_calibration(m, ld.gui.camera_matrix,
                                      ld.gui.dist_coeffs, ld.gui.rvec, ld.gui.tvec)
                /\ video_thread' = NewThread("measure")
                /\ btn' = [b EXCEPT !.measure_start = FALSE,
                                    !.measure_freeze = TRUE,
                                    !.measure_stop = TRUE]
                /\ gui' = [ld.gui EXCEPT !.frozen_frame = FALSE,
                                         !.click_points = <<>>]
                /\ lastOp' = Shown("ok")
    /\ UNCHANGED <<calib_file, extrinsics_file, intrinsic, extrinsic, tabs,
                   workers, driver>>

\* ChArUcoCalibrationGUI.freeze_frame
GUI_freeze_frame ==
    /\ driver = "gui" /\ tabs = 2 /\ btn.measure_freeze
    /\ IsRunning(video_thread)
    /\ \E current_measure_frame \in BOOLEAN :
          IF current_measure_frame /\ M_undistort_frame_raises(measurement)
          THEN \* the ValueError leaves the slot before anything else is done
               /\ lastOp' = Shown("IntrinsicsNotSet")
               /\ UNCHANGED <<gui, measurement, video_thread, btn>>
          ELSE /\ gui' = [gui EXCEPT !.frozen_frame = TRUE,
                                     !.click_points = <<>>]
               /\ measurement' = M_reset_points(measurement)
               /\ video_thread' = NoThread
               /\ btn' = [btn EXCEPT !.measure_freeze = FALSE,
                                     !.measure_reset = TRUE]
               /\ lastOp' = Shown("ok")
    /\ UNCHANGED <<calib_file, extrinsics_file, intrinsic, extrinsic, tabs,
                   workers, driver>>

\* measurement_click without its test of the two points already placed.
GUI_measurement_click_NoLimit(pt) ==
    /\ driver = "gui" /\ tabs = 2
    /\ gui.frozen_frame
    /\ LET g == [gui EXCEPT !.click_points = Append(@, pt)]
           m == M_add_click_point(measurement, pt)
       IN  /\ gui' = g
           /\ measurement' = m
           /\ lastOp' = IF Len(g.click_points) = 2
                        THEN Shown(M_compute_distance(m).message)
                        ELSE Shown("ok")
    /\ UNCHANGED <<calib_file, extrinsics_file, intrinsic, extrinsic,
                   video_thread, tabs, btn, workers, driver>>

\* ChArUcoCalibrationGUI.measurement_click, with compute_distance when the
\* second point is placed.  pt is the click in image coordinates.
GUI_measurement_click(pt) ==
    /\ driver = "gui" /\ tabs = 2
    /\ gui.frozen_frame
    /\ Len(gui.click_points) < 2
    /\ LET g == [gui EXCEPT !.click_points = Append(@, pt)]
           m == M_add_click_point(measurement, pt)
       IN  /\ gui' = g
           /\ measurement' = m
           /\ lastOp' = IF Len(g.click_points) = 2
                        THEN Shown(M_compute_distance(m).message)
                        ELSE Shown("ok")
    /\ UNCHANGED <<calib_file, extrinsics_file, intrinsic, extrinsic,
                   video_thread, tabs, btn, workers, driver>>

\* reset_measurement that empties the list of the window only.
GUI_reset_measurement_WindowOnly ==
    /\ driver = "gui" /\ tabs = 2 /\ btn.measure_reset
    /\ gui' = [gui EXCEPT !.click_points = <<>>]
    /\ lastOp' = Shown("ok")
    /\ UNCHANGED <<calib_file, extrinsics_file, intrinsic, extrinsic,
                   measurement, video_thread, tabs, btn, workers, driver>>

\* ChArUcoCalibrationGUI.reset_measurement
GUI_reset_measurement ==
    /\ driver = "gui" /\ tabs = 2 /\ btn.measure_reset
    /\ gui' = [gui EXCEPT !.click_points = <<>>]
    /\ measurement' = M_reset_points(measurement)
    /\ lastOp' = Shown("ok")
    /\ UNCHANGED <<calib_file, extrinsics_file, intrinsic, extrinsic,
                   video_thread, tabs, btn, workers, driver>>

\* ChArUcoCalibrationGUI.stop_measurement
GUI_stop_measurement ==
    /\ driver = "gui" /\ tabs = 2 /\ btn.measure_stop
    /\ video_thread' = NoThread
    /\ btn' = [btn EXCEPT !.measure_start = TRUE, !.measure_freeze = FALSE,
                          !.measure_reset = FALSE, !.measure_stop = FALSE]
    /\ gui' = [gui EXCEPT !.frozen_frame = FALSE, !.click_points = <<>>]
    /\ measurement' = M_reset_points(measurement)
    /\ lastOp' = Shown("ok")
    /\ UNCHANGED <<calib_file, extrinsics_file, intrinsic, extrinsic, tabs,
                   workers, driver>>

\* ------------------------------------------------------------------------
\* The application
\* ------------------------------------------------------------------------

NextGui ==
    \/ VideoThreadDetection
    \/ GUI_start_calibration_camera
    \/ GUI_capture_calibration_frame
    \/ GUI_run_calibration
    \/ \E w \in BagToSet(workers), ret \in RmsValues, throws \in BOOLEAN :
          CalibrationWorkerFinishes(w, ret, throws)
    \/ GUI_stop_calibration_camera
    \/ \E index \in 0..2 : GUI_on_tab_changed(index)
    \/ GUI_start_extrinsics_camera
    \/ GUI_capture_extrinsics
    \/ GUI_stop_extrinsics_camera
    \/ GUI_start_measurement
    \/ GUI_freeze_frame
    \/ \E pt \in Points : GUI_measurement_click(pt)
    \/ GUI_reset_measurement
    \/ GUI_stop_measurement

SpecGui == InitGui /\ [][NextGui]_vars

\* ------------------------------------------------------------------------
\* IntrinsicCalibration and CalibrationWorker, called directly
\* ------------------------------------------------------------------------

\* The objects before any call; no GUI is built.
InitDirect(who) ==
    /\ driver = who
    /\ InitObjects
    /\ gui = GUI_fields

\* The frames of the store with fewer than MIN_CHARUCO_CORNERS corners.
PoorFrames(self) ==
    {i \in DOMAIN self.all_charuco_corners :
        self.all_charuco_corners[i] < MIN_CHARUCO_CORNERS}

\* intrinsic.add_frame(charuco_corners, charuco_ids, image_size)
Call_add_frame(charuco_corners, image_size) ==
    /\ driver = "intrinsic"
    /\ IC_get_frame_count(intrinsic) < MaxFrames
    /\ charuco_corners < MIN_CHARUCO_CORNERS
          => Cardinality(PoorFrames(intrinsic)) < MaxPoorFrames
    /\ intrinsic' = IC_add_frame(intrinsic, charuco_corners, charuco_corners,
                                 image_size)
    /\ workers' = WorkersAfterAddFrame(workers, charuco_corners,
                                       charuco_corners)
    /\ lastOp' = Op("add_frame", "ok", IC_get_frame_count(intrinsic'))
    /\ UNCHANGED <<calib_file, extrinsics_file, extrinsic, measurement, gui,
                   video_thread, tabs, btn, driver>>

\* intrinsic.clear_frames()
Call_clear_frames ==
    /\ driver = "intrinsic"
    /\ intrinsic' = IC_clear_frames(intrinsic)
    /\ workers' = WorkersAfterClearFrames(workers)
    /\ lastOp' = Op("clear_frames", "ok", None)
    /\ UNCHANGED <<calib_file, extrinsics_file, extrinsic, measurement, gui,
                   video_thread, tabs, btn, driver>>

\* worker = intrinsic.run_calibration(board); worker.start()
Call_run_calibration ==
    /\ driver = "intrinsic"
    /\ LET r == IC_run_calibration(intrinsic)
       IN  IF r.raised
           THEN /\ lastOp' = Op("run_calibration", "InsufficientFrames", None)
                /\ UNCHANGED workers
           ELSE /\ BagCardinality(workers) < MaxWorkers
                /\ workers' = workers (+) One(r.worker)
                /\ lastOp' = Op("run_calibration", "ok", None)
    /\ UNCHANGED <<calib_file, extrinsics_file, intrinsic, extrinsic,
                   measurement, gui, video_thread, tabs, btn, driver>>

\* CalibrationWorker.run of a started worker; the caller receives the
\* signals.  ret is the RMS error of the fit, throws tells that the fit
\* raised instead.
Call_worker_run(w, ret, throws) ==
    /\ driver = "intrinsic"
    /\ BagIn(w, workers)
    /\ workers' = workers (-) One(w)
    /\ LET signals == CW_run(w, ret, 2, throws)
       IN  lastOp' = Op("run", FitOutcome(FinishedOf(signals)), signals)
    /\ UNCHANGED <<calib_file, extrinsics_file, intrinsic, extrinsic,
                   measurement, gui, video_thread, tabs, btn, driver>>

\* IntrinsicCalibration.save_calibration(data), data being what the finished
\* signal just received carries.
Call_save_calibration ==
    /\ driver = "intrinsic"
    /\ lastOp.op = "run" /\ lastOp.out = "ok"
    /\ \E written \in BOOLEAN :
          /\ calib_file' = IC_save_calibration(FinishedOf(lastOp.value).data,
                                               written)
          /\ lastOp' = Op("save_calibration",
                          IF written THEN "ok" ELSE "IOError", None)
    /\ UNCHANGED <<extrinsics_file, intrinsic, extrinsic, measurement, gui,
                   video_thread, tabs, btn, workers, driver>>

\* What a loader reports for a file: open() raises on a missing one.
LoadOutcome(file) ==
    IF ~Exists(file) THEN "NotFound"
    ELSE IF ~Loads(file) THEN "Corrupt" ELSE "ok"

\* IntrinsicCalibration.load_calibration()
Call_load_calibration ==
    /\ driver = "intrinsic"
    /\ LET r == IC_load_calibration(calib_file)
       IN  lastOp' = Op("load_calibration", LoadOutcome(calib_file),
                        <<r.camera_matrix, r.dist_coeffs>>)
    /\ UNCHANGED <<calib_file, extrinsics_file, intrinsic, extrinsic,
                   measurement, gui, video_thread, tabs, btn, workers, driver>>

NextIntrinsic ==
    \/ \E c \in DetectedCounts, size \in ImageSizes : Call_add_frame(c, size)
    \/ Call_clear_frames
    \/ Call_run_calibration
    \/ \E w \in BagToSet(workers), ret \in RmsValues, throws \in BOOLEAN :
          Call_worker_run(w, ret, throws)
    \/ Call_save_calibration
    \/ Call_load_calibration

SpecIntrinsic == InitDirect("intrinsic") /\ [][NextIntrinsic]_vars

\* The direct caller with the scheduling of QThread: a worker that was
\* started (worker.start()) gets to execute run, and the fit it calls
\* returns or raises.
SpecWorker ==
    /\ SpecIntrinsic
    /\ WF_vars(\E w \in BagToSet(workers), ret \in RmsValues,
                  throws \in BOOLEAN : Call_worker_run(w, ret, throws))

\* ------------------------------------------------------------------------
\* ExtrinsicCalibration, called directly
\* ------------------------------------------------------------------------

\* extrinsic.set_intrinsics(camera_matrix, dist_coeffs)
Call_set_intrinsics(camera_matrix, dist_coeffs) ==
    /\ driver = "extrinsic"
    /\ extrinsic' = EC_set_intrinsics(extrinsic, camera_matrix, dist_coeffs)
    /\ lastOp' = Op("set_intrinsics", "ok", None)
    /\ UNCHANGED <<calib_file, extrinsics_file, intrinsic, measurement, gui,
                   video_thread, tabs, btn, workers, driver>>

\* ExtrinsicCalibration.load_intrinsics()
Call_load_intrinsics ==
    /\ driver = "extrinsic"
    /\ LET r == IC_load_calibration(calib_file)
       IN  lastOp' = Op("load_intrinsics", LoadOutcome(calib_file),
                        <<r.camera_matrix, r.dist_coeffs>>)
    /\ UNCHANGED <<calib_file, extrinsics_file, intrinsic, extrinsic,
                   measurement, gui, video_thread, tabs, btn, workers, driver>>

\* extrinsic.capture_pose(charuco_corners, charuco_ids, board)
Call_capture_pose(charuco_corners, pnp, pose) ==
    /\ driver = "extrinsic"
    /\ LET r == EC_capture_pose(extrinsic, charuco_corners, charuco_corners,
                                pnp, pose)
       IN  /\ extrinsic' = r.self
           /\ lastOp' = Op("capture_pose", r.message, <<r.rvec, r.tvec>>)
    /\ UNCHANGED <<calib_file, extrinsics_file, intrinsic, measurement, gui,
                   video_thread, tabs, btn, workers, driver>>

\* extrinsic.save_extrinsics(rvec, tvec)
Call_save_extrinsics(rvec, tvec) ==
    /\ driver = "extrinsic"
    /\ \E written \in BOOLEAN :
          LET sv == EC_save_extrinsics(extrinsic, rvec, tvec, extrinsics_file,
                                       written)
          IN  /\ extrinsics_file' = sv.file
              /\ lastOp' = Op("save_extrinsics", sv.message, None)
    /\ UNCHANGED <<calib_file, intrinsic, extrinsic, measurement, gui,
                   video_thread, tabs, btn, workers, driver>>

\* ExtrinsicCalibration.load_extrinsics()
Call_load_extrinsics ==
    /\ driver = "extrinsic"
    /\ LET r == EC_load_extrinsics(extrinsics_file)
       IN  lastOp' = Op("load_extrinsics", LoadOutcome(extrinsics_file),
                        <<r.rvec, r.tvec>>)
    /\ UNCHANGED <<calib_file, extrinsics_file, intrinsic, extrinsic,
                   measurement, gui, video_thread, tabs, btn, workers, driver>>

NextExtrinsic ==
    \/ \E cm \in {None} \cup Matrices, dc \in {None} \cup Matrices :
          (dc \in {None, cm}) /\ Call_set_intrinsics(cm, dc)
    \/ Call_load_intrinsics
    \/ \E c \in CornerCounts, pnp \in PnpOutcomes, pose \in Poses :
          Call_capture_pose(c, pnp, pose)
    \/ \E rvec \in {None} \cup Poses, tvec \in {None} \cup Poses :
          Call_save_extrinsics(rvec, tvec)
    \/ Call_load_extrinsics

SpecExtrinsic == InitDirect("extrinsic") /\ [][NextExtrinsic]_vars

\* ------------------------------------------------------------------------
\* Measurement, called directly
\* ------------------------------------------------------------------------

\* Measurement.load_calibrations(): both files are read, the first failure
\* raises.
M_load_calibrations(cfile, efile) ==
    LET c == IC_load_calibration(cfile)
        e == EC_load_extrinsics(efile)
    IN  IF c.raised
        THEN [out |-> LoadOutcome(cfile), value |-> None]
        ELSE IF e.raised
        THEN [out |-> LoadOutcome(efile), value |-> None]
        ELSE [out |-> "ok",
              value |-> <<c.camera_matrix, c.dist_coeffs, e.rvec, e.tvec>>]

\* Measurement.load_calibrations()
Call_load_calibrations ==
    /\ driver = "measurement"
    /\ LET r == M_load_calibrations(calib_file, extrinsics_file)
       IN  lastOp' = Op("load_calibrations", r.out, r.value)
    /\ UNCHANGED <<calib_file, extrinsics_file, intrinsic, extrinsic,
                   measurement, gui, video_thread, tabs, btn, workers, driver>>

\* measurement.set_calibration(camera_matrix, dist_coeffs, rvec, tvec)
Call_set_calibration(camera_matrix, dist_coeffs, rvec, tvec) ==
    /\ driver = "measurement"
    /\ measurement' = M_set_calibration(measurement, camera_matrix, dist_coeffs,
                                        rvec, tvec)
    /\ lastOp' = Op("set_calibration", "ok", None)
    /\ UNCHANGED <<calib_file, extrinsics_file, intrinsic, extrinsic, gui,
                   video_thread, tabs, btn, workers, driver>>

\* measurement.undistort_frame(frame)
Call_undistort_frame ==
    /\ driver = "measurement"
    /\ lastOp' = Op("undistort_frame",
                    IF M_undistort_frame_raises(measurement)
                    THEN "IntrinsicsNotSet" ELSE "ok", None)
    /\ UNCHANGED <<calib_file, extrinsics_file, intrinsic, extrinsic,
                   measurement, gui, video_thread, tabs, btn, workers, driver>>

\* measurement.add_click_point(pixel_coords)
Call_add_click_point(pixel_coords) ==
    /\ driver = "measurement"
    /\ Len(measurement.click_points) < MaxClicks
    /\ measurement' = M_add_click_point(measurement, pixel_coords)
    /\ lastOp' = Op("add_click_point", "ok", Len(measurement'.click_points))
    /\ UNCHANGED <<calib_file, extrinsics_file, intrinsic, extrinsic, gui,
                   video_thread, tabs, btn, workers, driver>>

\* measurement.reset_points()
Call_reset_points ==
    /\ driver = "measurement"
    /\ measurement' = M_reset_points(measurement)
    /\ lastOp' = Op("reset_points", "ok", None)
    /\ UNCHANGED <<calib_file, extrinsics_file, intrinsic, extrinsic, gui,
                   video_thread, tabs, btn, workers, driver>>

\* compute_distance that empties the point list once it has measured.
Call_compute_distance_ConsumesPoints ==
    /\ driver = "measurement"
    /\ LET r == M_compute_distance(measurement)
       IN  /\ lastOp' = Op("compute_distance", r.message, M_result(r))
           /\ measurement' = IF r.success THEN M_reset_points(measurement)
                                          ELSE measurement
    /\ UNCHANGED <<calib_file, extrinsics_file, intrinsic, extrinsic,
                   gui, video_thread, tabs, btn, workers, driver>>

\* measurement.compute_distance()
Call_compute_distance ==
    /\ driver = "measurement"
    /\ LET r == M_compute_distance(measurement)
       IN  lastOp' = Op("compute_distance", r.message, M_result(r))
    /\ UNCHANGED <<calib_file, extrinsics_file, intrinsic, extrinsic,
                   measurement, gui, video_thread, tabs, btn, workers, driver>>

NextMeasurement ==
    \/ Call_load_calibrations
    \/ \E cm \in {None} \cup Matrices, dc \in {None} \cup Matrices,
          rvec \in {None} \cup Poses, tvec \in {None} \cup Poses :
          /\ dc \in {None, cm}
          /\ tvec \in {None, rvec}
          /\ Call_set_calibration(cm, dc, rvec, tvec)
    \/ Call_undistort_frame
    \/ \E pt \in ApiPoints : Call_add_click_point(pt)
    \/ Call_reset_points
    \/ Call_compute_distance

SpecMeasurement == InitDirect("measurement") /\ [][NextMeasurement]_vars

\* ------------------------------------------------------------------------
\* The persistence of the camera model and of the pose, called directly
\* ------------------------------------------------------------------------

\* The calib_data dictionaries a caller may save: what a fit that passed the
\* test of CalibrationWorker.run emits.
CalibData ==
    [camera_matrix : Matrices, dist_coeffs : Matrices, rms : {5, RMS_THRESHOLD},
     image_size : ImageSizes]

\* IntrinsicCalibration.save_calibration(calib_data)
Store_save_calibration(calib_data) ==
    /\ driver = "store"
    /\ \E written \in BOOLEAN :
          /\ calib_file' = IC_save_calibration(calib_data, written)
          /\ lastOp' = Op("save_calibration",
                          IF written THEN "ok" ELSE "IOError", None)
    /\ UNCHANGED <<extrinsics_file, intrinsic, extrinsic, measurement, gui,
                   video_thread, tabs, btn, workers, driver>>

\* IntrinsicCalibration.load_calibration()
Store_load_calibration ==
    /\ driver = "store"
    /\ LET r == IC_load_calibration(calib_file)
       IN  lastOp' = Op("load_calibration", LoadOutcome(calib_file),
                        <<r.camera_matrix, r.dist_coeffs>>)
    /\ UNCHANGED <<calib_file, extrinsics_file, intrinsic, extrinsic,
                   measurement, gui, video_thread, tabs, btn, workers, driver>>

\* IntrinsicCalibration.save_calibration of what load_calibration has just
\* returned: the tuple of two arrays as it is, on which json.dump raises
\* TypeError once open(filepath, 'w') has truncated the file, or (as_dict)
\* a dictionary the caller builds from the two arrays.
Call_save_loaded(as_dict) ==
    /\ driver = "store"
    /\ lastOp.op = "load_calibration" /\ lastOp.out = "ok"
    /\ \E written \in BOOLEAN :
          LET data == [camera_matrix |-> lastOp.value[1],
                       dist_coeffs |-> lastOp.value[2]]
          IN  /\ calib_file' = IC_save_calibration(data, as_dict /\ written)
              /\ lastOp' = Op("save_calibration",
                              IF ~as_dict THEN "TypeError"
                              ELSE IF written THEN "ok" ELSE "IOError", None)
    /\ UNCHANGED <<extrinsics_file, intrinsic, extrinsic, measurement, gui,
                   video_thread, tabs, btn, workers, driver>>

\* IntrinsicCalibration.load_calibration(filepath), on a path of the caller
\* that holds file.
Call_load_calibration_from(file) ==
    /\ driver = "store"
    /\ LET r == IC_load_calibration(file)
       IN  lastOp' = Op("load_calibration", LoadOutcome(file),
                        <<r.camera_matrix, r.dist_coeffs>>)
    /\ UNCHANGED <<calib_file, extrinsics_file, intrinsic, extrinsic,
                   measurement, gui, video_thread, tabs, btn, workers, driver>>

\* save_extrinsics opening the path of the calibration file.
Store_save_extrinsics_OnCalibPath(rvec, tvec) ==
    /\ driver = "store"
    /\ \E written \in BOOLEAN :
          LET sv == EC_save_extrinsics(extrinsic, rvec, tvec, extrinsics_file,
                                       written)
          IN  /\ calib_file' = IF sv.file = extrinsics_file THEN calib_file
                               ELSE IF sv.raised THEN PartialCalib
                               ELSE CalibJson([rvec |-> sv.file.rvec,
                                               tvec |-> sv.file.tvec])
              /\ lastOp' = Op("save_extrinsics", sv.message, None)
    /\ UNCHANGED <<extrinsics_file, intrinsic, extrinsic, measurement, gui,
                   video_thread, tabs, btn, workers, driver>>

\* ExtrinsicCalibration().save_extrinsics(rvec, tvec)
Store_save_extrinsics(rvec, tvec) ==
    /\ driver = "store"
    /\ \E written \in BOOLEAN :
          LET sv == EC_save_extrinsics(extrinsic, rvec, tvec, extrinsics_file,
                                       written)
          IN  /\ extrinsics_file' = sv.file
              /\ lastOp' = Op("save_extrinsics", sv.message, None)
    /\ UNCHANGED <<calib_file, intrinsic, extrinsic, measurement, gui,
                   video_thread, tabs, btn, workers, driver>>

\* ExtrinsicCalibration.load_extrinsics()
Store_load_extrinsics ==
    /\ driver = "store"
    /\ LET r == EC_load_extrinsics(extrinsics_file)
       IN  lastOp' = Op("load_extrinsics", LoadOutcome(extrinsics_file),
                        <<r.rvec, r.tvec>>)
    /\ UNCHANGED <<calib_file, extrinsics_file, intrinsic, extrinsic,
                   measurement, gui, video_thread, tabs, btn, workers, driver>>

\* ExtrinsicCalibration.load_extrinsics(filepath), on a path of the caller
\* that holds file.
Call_load_extrinsics_from(file) ==
    /\ driver = "store"
    /\ LET r == EC_load_extrinsics(file)
       IN  lastOp' = Op("load_extrinsics", LoadOutcome(file),
                        <<r.rvec, r.tvec>>)
    /\ UNCHANGED <<calib_file, extrinsics_file, intrinsic, extrinsic,
                   measurement, gui, video_thread, tabs, btn, workers, driver>>

NextStore ==
    \/ \E calib_data \in CalibData : Store_save_calibration(calib_data)
    \/ Store_load_calibration
    \/ \E file \in CalibFiles : Call_load_calibration_from(file)
    \/ \E as_dict \in BOOLEAN : Call_save_loaded(as_dict)
    \/ \E rvec \in {None} \cup Poses, tvec \in {None} \cup Poses :
          Store_save_extrinsics(rvec, tvec)
    \/ Store_load_extrinsics
    \/ \E file \in PoseFiles : Call_load_extrinsics_from(file)

SpecStore == InitDirect("store") /\ [][NextStore]_vars

\* ------------------------------------------------------------------------
\* The program, used through its window or through its classes
\* ------------------------------------------------------------------------

Init ==
    \/ InitGui
    \/ InitDirect("intrinsic")
    \/ InitDirect("extrinsic")
    \/ InitDirect("measurement")
    \/ InitDirect("store")

Next ==
    \/ NextGui
    \/ NextIntrinsic
    \/ NextExtrinsic
    \/ NextMeasurement
    \/ NextStore

Spec == Init /\ [][Next]_vars

\* ------------------------------------------------------------------------
\* Properties
\* ------------------------------------------------------------------------

FrameCount == IC_get_frame_count(intrinsic)

\* The calibration a Measurement object holds.
Calibration(m) == <<m.camera_matrix, m.dist_coeffs, m.rvec, m.tvec>>

ModelAndPoseSet(m) ==
    /\ m.camera_matrix # None /\ m.dist_coeffs # None
    /\ m.rvec # None /\ m.tvec # None

\* compute_distance reaches image_to_plane.
Projects(m) ==
    M_compute_distance(m).message \in {"ok", "RayParallelToPlane"}

\* start_measurement entering measurement mode.
StartsMeasurement == GUI_start_measurement /\ video_thread' = "measure"

\* The second click of a measurement: measurement_click calls
\* compute_distance.
SecondClick ==
    /\ \E pt \in Points : GUI_measurement_click(pt)
    /\ Len(gui'.click_points) = 2

\* A worker of the GUI coming to its end with a fit of RMS error ret.
FitEnds(ret) ==
    \E w \in BagToSet(workers) : CalibrationWorkerFinishes(w, ret, FALSE)

\* C1: a request to run the calibration made while a CalibrationWorker
\* started earlier is still running starts nothing: the set of running
\* workers is the same afterwards and the program goes on (the request is
\* refused or put aside, no second fit runs against the store at once).
C1_SecondRequestStartsNothing ==
    [][(GUI_run_calibration /\ workers # EmptyBag)
         => (workers' = workers /\ driver' = driver)]_vars

\* C2: a fit that ends once the calibration tab, in which it was requested,
\* has been left (the tab change tears the session down) is ignored: the
\* calibration file and the camera model held in memory are the same after
\* its finished signal as before.
C2_FitOfLeftSessionIgnored ==
    [][(tabs # 0 /\ \E ret \in RmsValues : FitEnds(ret))
         => /\ calib_file' = calib_file
            /\ gui'.camera_matrix = gui.camera_matrix
            /\ gui'.dist_coeffs = gui.dist_coeffs]_vars

\* C3: whatever happens to a save, neither the calibration file nor the pose
\* file ever holds an empty or partial record.
C3_FilesNeverPartial ==
    calib_file.kind # "partial" /\ extrinsics_file.kind # "partial"

\* C4: compute_distance, called on two points, projects only if all four
\* arrays are set and otherwise reports which of them is unset and returns
\* no distance; in the application the measurement mode starts only when
\* both files load, the Measurement object gets a calibration at no other
\* moment, and the second click, which calls compute_distance, finds the
\* model and the pose set.
C4_ProjectionNeedsModelAndPose ==
    [][/\ (Call_compute_distance /\ Len(measurement.click_points) = 2)
            => IF ModelAndPoseSet(measurement)
               THEN Projects(measurement)
               ELSE /\ lastOp'.out \in {"IntrinsicsNotSet", "ExtrinsicsNotSet"}
                    /\ lastOp'.value = NoResult
       /\ StartsMeasurement
            => /\ Loads(calib_file) /\ Loads(extrinsics_file)
               /\ ModelAndPoseSet(measurement')
       /\ ( /\ driver = "gui"
            /\ Calibration(measurement') \notin
                   {Calibration(measurement), Calibration(M_init)} )
            => StartsMeasurement
       /\ SecondClick => ModelAndPoseSet(measurement')]_vars

\* C4: the second click of a measurement has been placed in the application
\* and compute_distance has projected both points.
C4_Witness ==
    /\ driver = "gui" /\ gui.frozen_frame
    /\ Len(measurement.click_points) = 2
    /\ M_compute_distance(measurement).success

\* C5: capture_pose called on an object without camera matrix or distortion
\* coefficients reports IntrinsicsNotSet, returns no pose and leaves the
\* object as it was; in the application the pose file is written only once
\* the ExtrinsicCalibration object holds a camera model, and that model is
\* always the one just read from the calibration file.
C5_NoPoseWithoutIntrinsics ==
    [][/\ ( /\ \E c \in CornerCounts, pnp \in PnpOutcomes, pose \in Poses :
                  Call_capture_pose(c, pnp, pose)
            /\ extrinsic.camera_matrix = None \/ extrinsic.dist_coeffs = None )
            => /\ lastOp'.out = "IntrinsicsNotSet"
               /\ lastOp'.value = <<None, None>>
               /\ extrinsic' = extrinsic
       /\ (driver = "gui" /\ extrinsics_file' # extrinsics_file)
            => extrinsic.camera_matrix # None /\ extrinsic.dist_coeffs # None
       /\ ( /\ driver = "gui" /\ driver' = "gui"
            /\ extrinsic'.camera_matrix # extrinsic.camera_matrix )
            => /\ Loads(calib_file)
               /\ extrinsic'.camera_matrix = calib_file.camera_matrix
               /\ extrinsic'.dist_coeffs = calib_file.dist_coeffs]_vars

\* C5: capture_pose has been called without a camera model and has failed.
C5_Witness ==
    /\ lastOp.op = "capture_pose" /\ lastOp.out = "IntrinsicsNotSet"
    /\ extrinsic.camera_matrix = None /\ extrinsic.rvec = None

\* C6: the Measurement object gets a pose only from start_measurement, and
\* the pose it gets is the content of the pose file at that moment: a pose
\* capture_pose computed is used by compute_distance only after it went
\* through the file.
C6_PoseComesFromFile ==
    [][<<measurement'.rvec, measurement'.tvec>> \notin
           {<<measurement.rvec, measurement.tvec>>, <<None, None>>}
         => /\ StartsMeasurement
            /\ Loads(extrinsics_file)
            /\ measurement'.rvec = extrinsics_file.rvec
            /\ measurement'.tvec = extrinsics_file.tvec]_vars

\* C6: a pose computed by capture_pose in this run (pose 2) is the one a
\* completed measurement used.
C6_Witness ==
    /\ driver = "gui" /\ gui.frozen_frame
    /\ Len(measurement.click_points) = 2
    /\ measurement.rvec = 2 /\ extrinsic.rvec = 2
    /\ M_compute_distance(measurement).success

\* C7, as stated: add_frame with fewer than MIN_CHARUCO_CORNERS corners
\* reports InsufficientCorners and leaves the frame count unchanged, with
\* at least that many it increments the count by exactly 1.
C7_AddFrameTestsCorners ==
    [][\A c \in DetectedCounts, size \in ImageSizes :
          Call_add_frame(c, size)
            => IF c < MIN_CHARUCO_CORNERS
               THEN /\ FrameCount' = FrameCount
                    /\ lastOp'.out = "InsufficientCorners"
               ELSE FrameCount' = FrameCount + 1]_vars

\* C7, amended: the test is made by capture_calibration_frame, which with a
\* detection of fewer than MIN_CHARUCO_CORNERS corners warns (Insufficient
\* Corners) and leaves the store unchanged and otherwise adds one frame;
\* add_frame itself never fails and adds one frame whatever it is given.
C7_CaptureTestsCorners ==
    [][/\ GUI_capture_calibration_frame
            => IF gui.current_detection.corners_detected < MIN_CHARUCO_CORNERS
               THEN /\ intrinsic' = intrinsic
                    /\ lastOp'.out = "InsufficientCorners"
               ELSE /\ FrameCount' = FrameCount + 1
                    /\ lastOp'.out = "ok"
       /\ \A c \in DetectedCounts, size \in ImageSizes :
             Call_add_frame(c, size)
               => /\ FrameCount' = FrameCount + 1
                  /\ lastOp'.out = "ok"]_vars

\* C7: capture_calibration_frame has just refused a detection of three
\* corners.
C7_Witness ==
    /\ driver = "gui" /\ tabs = 0
    /\ lastOp.out = "InsufficientCorners"
    /\ gui.current_detection.corners_detected = 3

\* C8: an add_frame whose image size differs from the size the store has
\* recorded reports ImageSizeMismatch and leaves the store unchanged.
C8_SizeMismatchRefused ==
    [][\A c \in DetectedCounts, size \in ImageSizes :
          ( /\ Call_add_frame(c, size)
            /\ intrinsic.image_size \notin {None, size} )
            => /\ intrinsic' = intrinsic
               /\ lastOp'.out = "ImageSizeMismatch"]_vars

\* C9: run_calibration with fewer than 8 frames reports InsufficientFrames
\* and starts no worker, with 8 or more it starts one on the store's image
\* size; and whoever drives the program, the GUI included, a worker is added
\* to the running ones only when the store holds at least 8 frames.
C9_WorkerNeedsEightFrames ==
    [][/\ Call_run_calibration
            => IF FrameCount < MIN_FRAMES
               THEN /\ lastOp'.out = "InsufficientFrames"
                    /\ workers' = workers
               ELSE /\ lastOp'.out = "ok"
                    /\ workers' = workers (+) One(CW_init(intrinsic.all_charuco_corners,
                                                       intrinsic.all_charuco_ids,
                                                       intrinsic.image_size))
       /\ BagCardinality(workers') > BagCardinality(workers)
            => FrameCount >= MIN_FRAMES]_vars

\* C9: run_calibration has just been refused on a store of seven frames.
C9_Witness ==
    /\ lastOp.op = "run_calibration" /\ lastOp.out = "InsufficientFrames"
    /\ FrameCount = MIN_FRAMES - 1

\* C10: a fit whose RMS error is above the threshold ends with
\* CalibrationQualityTooLow and leaves the calibration file as it was, and
\* every record the calibration file ever holds has an rms not above the
\* threshold.
C10_PoorFitNotPersisted ==
    /\ [](calib_file.kind = "json" => calib_file.rms <= RMS_THRESHOLD)
    /\ [][\A ret \in RmsValues :
             (FitEnds(ret) /\ ret > RMS_THRESHOLD)
               => /\ lastOp'.out = "CalibrationQualityTooLow"
                  /\ calib_file' = calib_file
                  /\ gui' = gui]_vars

\* C10: a fit of the application has just been refused for its RMS error,
\* a model of an earlier fit being on disk.
C10_Witness ==
    /\ driver = "gui"
    /\ lastOp.out = "CalibrationQualityTooLow"
    /\ calib_file.kind = "json" /\ calib_file.camera_matrix = 2

\* C11: once a fit has ended, whether it succeeded, was refused or raised,
\* the store of calibration frames is empty.
C11_FramesDiscardedAfterFit ==
    [][(\E w \in BagToSet(workers), ret \in RmsValues, throws \in BOOLEAN :
           CalibrationWorkerFinishes(w, ret, throws))
         => FrameCount' = 0]_vars

PointCount == Len(measurement.click_points)

\* C12, as stated: add_click_point called while 2 points are held leaves the
\* point list unchanged (and below that adds the point), so no more than 2
\* points are ever held.
C12_AddClickPointStopsAtTwo ==
    [][\A pt \in ApiPoints :
          Call_add_click_point(pt)
            => IF PointCount >= 2
               THEN measurement' = measurement
               ELSE PointCount' = PointCount + 1]_vars

\* C12, amended: the test is made by measurement_click, which ignores a
\* click once 2 points are placed, so that in the application neither the
\* window nor the Measurement object ever holds more than 2 points;
\* add_click_point itself makes no test: it appends the point and returns
\* the new count, whatever the count was.
C12_ClickStopsAtTwo ==
    /\ [](driver = "gui"
            => Len(gui.click_points) <= 2 /\ PointCount <= 2)
    /\ [][/\ \A pt \in ApiPoints :
                Call_add_click_point(pt)
                  => /\ measurement'.click_points
                           = Append(measurement.click_points, pt)
                     /\ lastOp'.value = PointCount + 1
          /\ \A pt \in Points :
                GUI_measurement_click(pt)
                  => /\ Len(gui.click_points) < 2
                     /\ PointCount' = PointCount + 1]_vars

\* C12: two points are placed on the frozen frame of the application, the
\* state in which a further click is ignored.
C12_Witness ==
    /\ driver = "gui" /\ tabs = 2 /\ gui.frozen_frame
    /\ Len(gui.click_points) = 2 /\ PointCount = 2
    /\ ~ ENABLED (\E pt \in Points : GUI_measurement_click(pt))

\* The Measurement object with only its first two click points.
FirstTwoPoints(m) == [m EXCEPT !.click_points = SubSeq(@, 1, 2)]

\* C13, as stated: compute_distance succeeds only with exactly 2 points
\* held, and with any other number of points (fewer or more) it reports
\* InsufficientPoints and returns no distance.
C13_ExactlyTwoPoints ==
    [][Call_compute_distance
         => /\ lastOp'.out = "ok" => PointCount = 2
            /\ PointCount # 2
                 => /\ lastOp'.out = "InsufficientPoints"
                    /\ lastOp'.value = NoResult]_vars

\* C13, amended: with 0 or 1 points held compute_distance reports
\* InsufficientPoints and returns no distance; with 2 or more it never
\* reports InsufficientPoints, and what it returns is what it returns for
\* the first two points alone (the further points are not read); it returns
\* a distance only when it succeeds.
C13_AtLeastTwoPoints ==
    [][Call_compute_distance
         => /\ PointCount < 2
                 => /\ lastOp'.out = "InsufficientPoints"
                    /\ lastOp'.value = NoResult
            /\ PointCount >= 2
                 => /\ lastOp'.out # "InsufficientPoints"
                    /\ lastOp'.out
                         = M_compute_distance(FirstTwoPoints(measurement)).message
                    /\ lastOp'.value
                         = M_result(M_compute_distance(FirstTwoPoints(measurement)))
            /\ lastOp'.out # "ok" => lastOp'.value = NoResult]_vars

\* C13: compute_distance has just been refused on a single point, with the
\* camera model and the pose set.
C13_Witness ==
    /\ lastOp.op = "compute_distance" /\ lastOp.out = "InsufficientPoints"
    /\ PointCount = 1 /\ ModelAndPoseSet(measurement)

\* C14: compute_distance leaves the Measurement object (click points, camera
\* model, pose) as it was, and called again right after itself it returns
\* what it returned the first time: the same outcome, distance and plane
\* points.
C14_ComputeDistanceReadOnly ==
    [][Call_compute_distance
         => /\ measurement' = measurement
            /\ lastOp.op = "compute_distance" => lastOp' = lastOp]_vars

\* C14: compute_distance has returned a distance for two different points.
C14_Witness ==
    /\ lastOp.op = "compute_distance" /\ lastOp.out = "ok"
    /\ PointCount = 2
    /\ measurement.click_points[1] # measurement.click_points[2]
    /\ lastOp.value = M_result(M_compute_distance(measurement))

ModelSet(m) == m.camera_matrix # None /\ m.dist_coeffs # None

PoseSet(m) == m.rvec # None /\ m.tvec # None

\* C15: with 2 points held, compute_distance reports IntrinsicsNotSet when
\* the camera model is unset (whatever the pose) and ExtrinsicsNotSet when
\* the camera model is set and the pose is not, and in both cases returns
\* no distance and no plane point.
C15_UnsetCalibrationNamed ==
    [][(Call_compute_distance /\ PointCount = 2)
         => /\ ~ModelSet(measurement)
                 => /\ lastOp'.out = "IntrinsicsNotSet"
                    /\ lastOp'.value = NoResult
            /\ (ModelSet(measurement) /\ ~PoseSet(measurement))
                 => /\ lastOp'.out = "ExtrinsicsNotSet"
                    /\ lastOp'.value = NoResult]_vars

\* C15: compute_distance has just reported the missing pose, two points and
\* the camera model being there.
C15_Witness ==
    /\ lastOp.op = "compute_distance" /\ lastOp.out = "ExtrinsicsNotSet"
    /\ PointCount = 2 /\ ModelSet(measurement) /\ ~PoseSet(measurement)

\* plane_normal_cam.dot(ray_cam) for the pixel pt, scaled by fx * fy * RotDen
\* (which leaves its being zero unchanged).
PlaneDenominator(m, pt) ==
    Dot(Col(Rodrigues(m.rvec), 3),
        <<(pt[1] - Cx(m.camera_matrix)) * Fy(m.camera_matrix),
          (pt[2] - Cy(m.camera_matrix)) * Fx(m.camera_matrix),
          Fx(m.camera_matrix) * Fy(m.camera_matrix)>>)

\* A number that is neither inf nor nan.
Finite(f) == f \in [num : Int, den : Int] /\ f.den # 0

\* C16: when the ray through one of the two clicked pixels is parallel to
\* the plane, compute_distance reports RayParallelToPlane and returns no
\* distance and no plane point; and every distance and plane coordinate a
\* successful compute_distance returns is a finite number (no division by
\* zero went into it).
C16_ParallelRayRefused ==
    [][(Call_compute_distance /\ PointCount >= 2
            /\ ModelAndPoseSet(measurement))
         => /\ ( \/ PlaneDenominator(measurement, measurement.click_points[1]) = 0
                 \/ PlaneDenominator(measurement, measurement.click_points[2]) = 0 )
                 => /\ lastOp'.out = "RayParallelToPlane"
                    /\ lastOp'.value = NoResult
            /\ lastOp'.out = "ok"
                 => /\ Finite(lastOp'.value[1])
                    /\ \A i \in {2, 3} : /\ Finite(lastOp'.value[i].x)
                                         /\ Finite(lastOp'.value[i].y)]_vars

\* C16: compute_distance has just refused two points the second of which
\* lies on a ray parallel to the plane.
C16_Witness ==
    /\ lastOp.op = "compute_distance" /\ lastOp.out = "RayParallelToPlane"
    /\ PointCount = 2 /\ ModelAndPoseSet(measurement)
    /\ PlaneDenominator(measurement, measurement.click_points[1]) # 0
    /\ PlaneDenominator(measurement, measurement.click_points[2]) = 0

\* The pose of m has the identity for rotation and a translation (0, 0, Z)
\* with Z # 0: the board faces the camera at distance Z on the optical axis.
FrontalPose(m) ==
    /\ PoseSet(m)
    /\ Rodrigues(m.rvec)
         = << <<RotDen(m.rvec), 0, 0>>, <<0, RotDen(m.rvec), 0>>,
              <<0, 0, RotDen(m.rvec)>> >>
    /\ Tvec(m.tvec)[1] = 0 /\ Tvec(m.tvec)[2] = 0 /\ Tvec(m.tvec)[3] # 0

\* (Z (px - cx) / fx, Z (py - cy) / fy)
FrontalPoint(m, pt) ==
    [x |-> Frac(Tvec(m.tvec)[3] * (pt[1] - Cx(m.camera_matrix)),
                Fx(m.camera_matrix)),
     y |-> Frac(Tvec(m.tvec)[3] * (pt[2] - Cy(m.camera_matrix)),
                Fy(m.camera_matrix))]

\* The square of the Euclidean distance of two plane points.
SquaredDistance(p, q) ==
    FracAdd(FracMul(FracSub(q.x, p.x), FracSub(q.x, p.x)),
            FracMul(FracSub(q.y, p.y), FracSub(q.y, p.y)))

\* C17: under a frontal pose at distance Z, image_to_plane maps every pixel
\* (px, py) to (Z (px - cx) / fx, Z (py - cy) / fy), and compute_distance
\* succeeds and returns these two plane points and their Euclidean distance.
C17_FrontalPlaneDistance ==
    [][(Call_compute_distance /\ PointCount >= 2 /\ ModelSet(measurement)
            /\ FrontalPose(measurement))
         => /\ \A pt \in ApiPoints :
                  LET p == M_image_to_plane(measurement, pt)
                  IN  /\ ~p.parallel
                      /\ [x |-> p.x, y |-> p.y] = FrontalPoint(measurement, pt)
            /\ lastOp'.out = "ok"
            /\ lastOp'.value[2]
                 = FrontalPoint(measurement, measurement.click_points[1])
            /\ lastOp'.value[3]
                 = FrontalPoint(measurement, measurement.click_points[2])
            /\ lastOp'.value[1]
                 = SquaredDistance(lastOp'.value[2], lastOp'.value[3])]_vars

\* C17: with the board 1 m (10 dm) in front of the camera, compute_distance
\* has returned 0.05 m (the square of 1/2 dm) for two pixels projecting
\* that far apart.
C17_Witness ==
    /\ lastOp.op = "compute_distance" /\ lastOp.out = "ok"
    /\ PointCount = 2 /\ ModelSet(measurement) /\ FrontalPose(measurement)
    /\ Tvec(measurement.tvec)[3] = 10
    /\ measurement.click_points = << <<20, 10>>, <<23, 10>> >>
    /\ measurement.camera_matrix = 2
    /\ lastOp.value[1] = Frac(1, 4)

\* C18: right after freeze_frame has frozen a frame, after reset_measurement
\* and after reset_points, no click point is held: none by the window and
\* none by the Measurement object.
C18_PointsClearedOnFreezeAndReset ==
    [][/\ (GUI_freeze_frame /\ lastOp'.out = "ok")
            => /\ gui'.frozen_frame
               /\ gui'.click_points = <<>>
               /\ PointCount' = 0
       /\ GUI_reset_measurement
            => /\ gui'.click_points = <<>>
               /\ PointCount' = 0
       /\ Call_reset_points => PointCount' = 0]_vars

\* C18: a frame is frozen, and freeze_frame or reset_measurement has just
\* left it without click points.
C18_Witness ==
    /\ driver = "gui" /\ tabs = 2 /\ gui.frozen_frame
    /\ video_thread = NoThread /\ btn.measure_reset
    /\ gui.click_points = <<>> /\ PointCount = 0
    /\ lastOp = Shown("ok")

\* C19: undistort_frame reports IntrinsicsNotSet when the camera matrix or
\* the distortion coefficients are unset and succeeds otherwise, and in both
\* cases leaves the Measurement object (camera model, pose, click points)
\* as it was.
C19_UndistortNeedsModel ==
    [][Call_undistort_frame
         => /\ lastOp'.out = IF ModelSet(measurement) THEN "ok"
                                                      ELSE "IntrinsicsNotSet"
            /\ measurement' = measurement]_vars

\* C19: undistort_frame has just been refused on an object holding a camera
\* matrix without distortion coefficients, a pose and a click point.
C19_Witness ==
    /\ lastOp.op = "undistort_frame" /\ lastOp.out = "IntrinsicsNotSet"
    /\ measurement.camera_matrix # None /\ measurement.dist_coeffs = None
    /\ PoseSet(measurement) /\ PointCount = 1

\* C20, as stated: capture_pose with fewer than 4 correspondences (or none)
\* reports InsufficientCorners, returns no pose and leaves the stored pose
\* and the pose file unchanged.
C20_FewCornersRefused ==
    [][\A c \in CornerCounts, pnp \in PnpOutcomes, pose \in Poses :
          (Call_capture_pose(c, pnp, pose) /\ c < 4)
            => /\ lastOp'.out = "InsufficientCorners"
               /\ lastOp'.value = <<None, None>>
               /\ extrinsic' = extrinsic
               /\ extrinsics_file' = extrinsics_file]_vars

\* C20, amended: the same of a capture_pose called on an object that holds a
\* camera model (without one the call reports IntrinsicsNotSet, whatever
\* the correspondences); with fewer than 4 correspondences it never reports
\* anything but one of the two, and never touches the stored pose or the
\* pose file, and capture_extrinsics, which makes the same test before it
\* calls capture_pose, does not either.
C20_FewCornersRefusedWithModel ==
    [][/\ \A c \in CornerCounts, pnp \in PnpOutcomes, pose \in Poses :
             (Call_capture_pose(c, pnp, pose) /\ c < 4)
               => /\ lastOp'.out
                       = IF extrinsic.camera_matrix # None
                            /\ extrinsic.dist_coeffs # None
                         THEN "InsufficientCorners" ELSE "IntrinsicsNotSet"
                  /\ lastOp'.value = <<None, None>>
                  /\ extrinsic' = extrinsic
                  /\ extrinsics_file' = extrinsics_file
       /\ ( /\ GUI_capture_extrinsics
            /\ gui.current_detection.corners_detected < 4 )
            => /\ lastOp'.out = "InsufficientCorners"
               /\ extrinsic' = extrinsic
               /\ extrinsics_file' = extrinsics_file]_vars

\* C20: capture_pose has just refused three correspondences on an object
\* that holds a camera model and the pose of an earlier capture.
C20_Witness ==
    /\ lastOp.op = "capture_pose" /\ lastOp.out = "InsufficientCorners"
    /\ extrinsic.camera_matrix # None /\ extrinsic.dist_coeffs # None
    /\ extrinsic.rvec # None /\ extrinsic.tvec # None

\* What a load owes its caller on a file, required being the keys a record
\* must carry: NotFound on a missing file, Corrupt on a truncated one or on
\* one that lacks a required key.
OwedOutcome(file, required) ==
    IF ~Exists(file) THEN "NotFound"
    ELSE IF file.kind # "json" \/ ~(required \subseteq file.keys) THEN "Corrupt"
    ELSE "ok"

\* C21: a load of a camera model or of a pose reports NotFound when the file
\* does not exist and Corrupt when it is truncated or lacks one of the
\* required keys (camera_matrix, dist_coeffs, rms, image_size for the model,
\* rvec, tvec for the pose); a load that fails returns nothing and leaves
\* every object as it was.
C21_LoadValidatesRequiredFields ==
    [][/\ \A file \in CalibFiles :
            Call_load_calibration_from(file)
              => /\ lastOp'.out = OwedOutcome(file, CalibKeys)
                 /\ lastOp'.out # "ok" => lastOp'.value = <<None, None>>
                 /\ <<intrinsic', extrinsic', measurement'>>
                        = <<intrinsic, extrinsic, measurement>>
       /\ \A file \in PoseFiles :
            Call_load_extrinsics_from(file)
              => /\ lastOp'.out = OwedOutcome(file, PoseKeys)
                 /\ lastOp'.out # "ok" => lastOp'.value = <<None, None>>
                 /\ <<intrinsic', extrinsic', measurement'>>
                        = <<intrinsic, extrinsic, measurement>>]_vars

\* C22: saving what load_calibration returned for the calibration file
\* writes the record the file already held: the same camera_matrix,
\* dist_coeffs, rms and image_size (the device not failing during the write).
C22_RoundTrip ==
    [][\A as_dict \in BOOLEAN :
          ( /\ Call_save_loaded(as_dict)
            /\ Loads(calib_file)
            /\ lastOp.value = <<calib_file.camera_matrix, calib_file.dist_coeffs>>
            /\ lastOp'.out # "IOError" )
            => calib_file' = calib_file]_vars

\* A step that saves a pose; a step that saves a camera model.
SavesPose ==
    \/ \E rvec \in {None} \cup Poses, tvec \in {None} \cup Poses :
          Store_save_extrinsics(rvec, tvec) \/ Call_save_extrinsics(rvec, tvec)
    \/ GUI_capture_extrinsics

SavesModel ==
    \/ \E calib_data \in CalibData : Store_save_calibration(calib_data)
    \/ \E as_dict \in BOOLEAN : Call_save_loaded(as_dict)
    \/ Call_save_calibration
    \/ \E w \in BagToSet(workers), ret \in RmsValues, throws \in BOOLEAN :
          CalibrationWorkerFinishes(w, ret, throws)

\* C23: the two files are kept apart: their default paths differ, the
\* calibration file never holds rvec or tvec and the pose file never holds
\* anything else, a step that saves a pose leaves the calibration file as it
\* was, a step that saves a camera model leaves the pose file as it was, and
\* no step at all changes both.
C23_FilesIndependent ==
    /\ [](/\ CALIB_FILE # EXTRINSICS_FILE
          /\ calib_file.keys \cap PoseKeys = {}
          /\ extrinsics_file.keys \subseteq PoseKeys)
    /\ [][/\ SavesPose => calib_file' = calib_file
          /\ SavesModel => extrinsics_file' = extrinsics_file
          /\ calib_file' = calib_file \/ extrinsics_file' = extrinsics_file]_vars

\* C23: a pose has just been saved next to a camera model saved before it,
\* and both files hold what was saved.
C23_Witness ==
    /\ driver = "store"
    /\ lastOp.op = "save_extrinsics" /\ lastOp.out = "ok"
    /\ calib_file.kind = "json" /\ calib_file.camera_matrix = 2
    /\ extrinsics_file = PoseJson(2, 2)

\* C24: in the application every failure can be recovered from where it
\* happened: a fit that is refused or raises leaves the Calibrate button
\* enabled and the captured frames in the store, a pose capture that fails
\* leaves the Capture button enabled and the camera running, a distance
\* computation that fails leaves the frame frozen and the Reset button
\* enabled, a reset then emptying the points; and each of the three leaves
\* both files as they were.
C24_ErrorsRecoverable ==
    [][/\ ( /\ \E w \in BagToSet(workers), ret \in RmsValues,
                  throws \in BOOLEAN : CalibrationWorkerFinishes(w, ret, throws)
            /\ lastOp'.out \in {"CalibrationQualityTooLow", "CalibrationFailed"} )
            => /\ btn'.calib_calibrate
               /\ intrinsic' = intrinsic
               /\ <<calib_file', extrinsics_file'>> = <<calib_file, extrinsics_file>>
       /\ ( /\ GUI_capture_extrinsics
            /\ lastOp'.out \in {"InsufficientCorners", "IntrinsicsNotSet",
                                "PoseSolveFailed", "PoseEstimationError"} )
            => /\ btn'.extrin_capture /\ IsRunning(video_thread')
               /\ <<calib_file', extrinsics_file'>> = <<calib_file, extrinsics_file>>
       /\ (SecondClick /\ lastOp'.out # "ok")
            => /\ btn'.measure_reset /\ gui'.frozen_frame
               /\ <<calib_file', extrinsics_file'>> = <<calib_file, extrinsics_file>>
       /\ GUI_reset_measurement
            => /\ gui'.click_points = <<>> /\ measurement'.click_points = <<>>
               /\ gui'.frozen_frame = gui.frozen_frame]_vars

\* C25: CalibrationWorker.run reports success, with the fitted model, for
\* every fit whose RMS error is not above the threshold, a fit of RMS error
\* exactly 0 included, and reports failure, with no model, only when the RMS
\* error is above the threshold or the solver raises.
C25_SuccessUpToThreshold ==
    [][\A w \in BagToSet(workers), ret \in RmsValues, throws \in BOOLEAN :
          Call_worker_run(w, ret, throws)
            => LET finished == FinishedOf(lastOp'.value)
               IN  IF throws \/ ret > RMS_THRESHOLD
                   THEN ~finished.success /\ finished.data = NoData
                   ELSE /\ finished.success
                        /\ finished.data.rms = ret
                        /\ finished.data.image_size = w.image_size]_vars

\* C26: a fit works on the frames the store held when it was requested: a
\* step that appends a frame to the store while workers are running leaves
\* the corner list and the ID list of every one of them as they were.
C26_WorkerFitsFramesAtRequest ==
    [][(workers # EmptyBag /\ FrameCount' = FrameCount + 1)
         => workers' = workers]_vars

\* C27: whenever capture_extrinsics writes a pose to the pose file, the
\* camera model the pose solver computed it with is the one the calibration
\* file holds at that moment (both files being complete records).
C27_PoseUsesModelOnDisk ==
    [][( /\ GUI_capture_extrinsics
         /\ extrinsics_file' # extrinsics_file
         /\ Loads(extrinsics_file') /\ Loads(calib_file) )
         => /\ extrinsic.camera_matrix = calib_file.camera_matrix
            /\ extrinsic.dist_coeffs = calib_file.dist_coeffs]_vars

\* C28: a capture consumes only a detection of the camera session that is
\* running: clicked right after Start Camera, before the new video thread
\* has emitted a detection, capture_calibration_frame and capture_extrinsics
\* find nothing to consume, warn (InsufficientCorners) and change neither
\* the store of frames nor the pose.
C28_CaptureUsesLiveDetection ==
    [][( /\ GUI_capture_calibration_frame \/ GUI_capture_extrinsics
         /\ lastOp.out = "CameraStarted" )
         => /\ lastOp'.out = "InsufficientCorners"
            /\ intrinsic' = intrinsic
            /\ extrinsic' = extrinsic
            /\ extrinsics_file' = extrinsics_file]_vars

\* C29: in the application, whenever a frozen frame is present (a click can
\* be accepted), the click_points list of the window and the click_points
\* list of the Measurement object hold the same points in the same order,
\* and no more than 2 of them.
C29_ClickListsAgree ==
    (driver = "gui" /\ gui.frozen_frame)
        => /\ gui.click_points = measurement.click_points
           /\ Len(gui.click_points) <= 2

\* C29: two different points have been clicked on the frozen frame, and
\* both lists hold them in the order of the clicks.
C29_Witness ==
    /\ driver = "gui" /\ gui.frozen_frame
    /\ gui.click_points = << <<20, 50>>, <<20, 10>> >>
    /\ measurement.click_points = << <<20, 50>>, <<20, 10>> >>

\* C30: every started CalibrationWorker run ends, and it ends by emitting
\* the finished signal exactly once, as the last signal of the run: with
\* success and the model (the fit's arrays, its RMS error, the worker's image
\* size), or with failure and no model, whether the fit was accepted, was
\* rejected or raised; every other signal of the run is a progress message
\* and comes before it.  No started worker is left running for ever: runs
\* keep ending, or from some point on no worker is running.
C30_RunEndsWithOneFinished ==
    /\ [][\A w \in BagToSet(workers), ret \in RmsValues, throws \in BOOLEAN :
            Call_worker_run(w, ret, throws)
            => LET signals == lastOp'.value
                   n == Len(signals)
               IN  /\ n >= 1
                   /\ signals[n].signal = "finished"
                   /\ \A i \in 1..(n - 1) : signals[i].signal = "progress"
                   /\ signals[n].success
                         <=> (~throws /\ ret # 0 /\ ret <= RMS_THRESHOLD)
                   /\ signals[n].success
                         => /\ signals[n].data # NoData
                            /\ signals[n].data.camera_matrix # None
                            /\ signals[n].data.dist_coeffs # None
                            /\ signals[n].data.rms = ret
                            /\ signals[n].data.image_size = w.image_size
                   /\ ~signals[n].success => signals[n].data = NoData
                   /\ workers' = workers (-) One(w)]_vars
    /\ \/ []<><<\E w \in BagToSet(workers), ret \in RmsValues,
                    throws \in BOOLEAN : Call_worker_run(w, ret, throws)>>_vars
       \/ <>[](workers = EmptyBag)

C30_Witness ==
    /\ driver = "intrinsic"
    /\ lastOp.op = "run"
    /\ lastOp.out = "ok"
    /\ Len(lastOp.value) = 3
    /\ lastOp.value[3].signal = "finished"
    /\ workers = EmptyBag

====
